---- MODULE Spec2Model ----
(***************************************************************************)
(* A model of teller (tellerops/teller): the provider contract and its     *)
(* backends, KV::from_data, the config loader's "==" sugar and              *)
(* Teller::collect.                                                         *)
(*                                                                          *)
(* Rust strings that the code takes apart (paths, backend names, keys) are  *)
(* sequences of one-character strings; secret values, which no provider    *)
(* inspects, are plain strings.  Option<T> is a sequence of length 0 or 1.  *)
(* A BTreeMap is a function whose (finite) domain is iterated in ascending  *)
(* key order.                                                               *)
(***************************************************************************)
EXTENDS Integers, Sequences, FiniteSets, TLC

VARIABLES
    \* ---- one provider instance driven through its contract ----
    kind,       \* ProviderKind of the instance
    opt,        \* DotEnvOptions.create_on_put (dotenv), kv1 protocol (vault)
    store,      \* the backend: name -> value (tree) or path -> dictionary (blob)
    hist,       \* the calls made so far on the instance, with their results
    \* ---- KV::from_data ----
    fd_data, fd_pm, fd_provider, fd_out,
    \* ---- Config::with_vars ----
    cfg_text, cfg_vars, cfg_loaded,
    \* ---- Teller::collect ----
    t_config, t_registry, t_stores, t_pc, t_i, t_j, t_res, t_calls, t_ret,
    \* ---- Teller::delete and Teller::copy ----
    t_op,       \* the operation and its arguments
    \* ---- Redactor::redact ----
    r_kvs, r_reader, r_pos, r_writer, r_ret,
    \* ---- scan::scan_root ----
    s_files, s_kvs, s_opts, s_walk, s_ret,
    \* ---- Ord for KV ----
    k_kvs, k_cmp,
    \* ---- scan::get_visual_position ----
    v_text, v_pos, v_out,
    \* ---- exec::cmd ----
    e_env, e_kvs, e_opts, e_words, e_child, e_ret,
    \* ---- template::render ----
    tp_template, tp_kvs, tp_ret,
    \* ---- Registry::new and lookups on the built Teller ----
    g_providers, g_loaded, g_i, g_ret, g_lookup,
    \* ---- provider handlers over a backend whose calls can fail ----
    b_call, b_script, b_log, b_ret,
    \* ---- concurrent callers of one Inmem provider ----
    m_init, m_store, m_lock, m_proc,
    \* ---- consumers of a collected list with repeated keys ----
    d_kvs, d_env, d_data, d_tpl

provVars == <<kind, opt, store, hist>>
fdVars   == <<fd_data, fd_pm, fd_provider, fd_out>>
cfgVars  == <<cfg_text, cfg_vars, cfg_loaded>>
colVars  == <<t_config, t_registry, t_stores, t_pc, t_i, t_j, t_res, t_calls,
             t_ret, t_op>>
redVars  == <<r_kvs, r_reader, r_pos, r_writer, r_ret>>
scanVars == <<s_files, s_kvs, s_opts, s_walk, s_ret>>
ordVars  == <<k_kvs, k_cmp>>
posVars  == <<v_text, v_pos, v_out>>
execVars == <<e_env, e_kvs, e_opts, e_words, e_child, e_ret>>
tplVars  == <<tp_template, tp_kvs, tp_ret>>
regVars == <<g_providers, g_loaded, g_i, g_ret, g_lookup>>
fltVars == <<b_call, b_script, b_log, b_ret>>
concVars == <<m_init, m_store, m_lock, m_proc>>
dupVars == <<d_kvs, d_env, d_data, d_tpl>>
vars     == <<provVars, fdVars, cfgVars, colVars, redVars, scanVars, ordVars,
             posVars, execVars, tplVars,
             regVars,
             fltVars,
             concVars,
             dupVars>>

\* the variables of every component but one
notProv == <<fdVars, cfgVars, colVars, redVars, scanVars, ordVars, posVars,
             execVars, tplVars,
             regVars,
             fltVars,
             concVars,
             dupVars>>
notFd   == <<provVars, cfgVars, colVars, redVars, scanVars, ordVars, posVars,
             execVars, tplVars,
             regVars,
             fltVars,
             concVars,
             dupVars>>
notCfg  == <<provVars, fdVars, colVars, redVars, scanVars, ordVars, posVars,
             execVars, tplVars,
             regVars,
             fltVars,
             concVars,
             dupVars>>
notCol  == <<provVars, fdVars, cfgVars, redVars, scanVars, ordVars, posVars,
             execVars, tplVars,
             regVars,
             fltVars,
             concVars,
             dupVars>>
notRed  == <<provVars, fdVars, cfgVars, colVars, scanVars, ordVars, posVars,
             execVars, tplVars,
             regVars,
             fltVars,
             concVars,
             dupVars>>
notScan == <<provVars, fdVars, cfgVars, colVars, redVars, ordVars, posVars,
             execVars, tplVars,
             regVars,
             fltVars,
             concVars,
             dupVars>>
notOrd  == <<provVars, fdVars, cfgVars, colVars, redVars, scanVars, posVars,
             execVars, tplVars,
             regVars,
             fltVars,
             concVars,
             dupVars>>
notPos  == <<provVars, fdVars, cfgVars, colVars, redVars, scanVars, ordVars,
             execVars, tplVars,
             regVars,
             fltVars,
             concVars,
             dupVars>>
notExec == <<provVars, fdVars, cfgVars, colVars, redVars, scanVars, ordVars,
             posVars, tplVars,
             regVars,
             fltVars,
             concVars,
             dupVars>>
notTpl  == <<provVars, fdVars, cfgVars, colVars, redVars, scanVars, ordVars,
             posVars, execVars,
             regVars,
             fltVars,
             concVars,
             dupVars>>
notReg == <<provVars, fdVars, cfgVars, colVars, redVars, scanVars, ordVars, posVars, execVars, tplVars,
             fltVars,
             concVars,
             dupVars>>
notFlt == <<provVars, fdVars, cfgVars, colVars, redVars, scanVars, ordVars, posVars, execVars, tplVars, regVars,
             concVars,
             dupVars>>
notConc == <<provVars, fdVars, cfgVars, colVars, redVars, scanVars, ordVars, posVars, execVars, tplVars, regVars, fltVars,
             dupVars>>
notDup == <<provVars, fdVars, cfgVars, colVars, redVars, scanVars, ordVars, posVars, execVars, tplVars, regVars, fltVars, concVars>>

-----------------------------------------------------------------------------
(* Strings *)

\* byte order of the characters that occur in the model
CharOrd == <<"/", "=", "a", "b", "c", "s", "secrets", "x">>

Code(c) == CHOOSE i \in 1..Len(CharOrd) : CharOrd[i] = c

\* str::cmp: lexicographic byte order
RECURSIVE StrLess(_, _)
StrLess(s, t) ==
    IF t = <<>> THEN FALSE
    ELSE IF s = <<>> THEN TRUE
    ELSE IF Head(s) # Head(t) THEN Code(Head(s)) < Code(Head(t))
    ELSE StrLess(Tail(s), Tail(t))

\* iteration order of a BTreeMap / BTreeSet of strings
RECURSIVE SortedKeys(_)
SortedKeys(S) ==
    IF S = {} THEN <<>>
    ELSE LET m == CHOOSE x \in S : \A y \in S \ {x} : StrLess(x, y)
         IN  <<m>> \o SortedKeys(S \ {m})

starts_with(s, p) == Len(p) <= Len(s) /\ SubSeq(s, 1, Len(p)) = p

\* str::strip_prefix, applied where starts_with holds
strip_prefix(s, p) == SubSeq(s, Len(p) + 1, Len(s))

RECURSIVE trim_start_matches(_)
trim_start_matches(s) ==
    IF s # <<>> /\ Head(s) = "/" THEN trim_start_matches(Tail(s)) ELSE s

RECURSIVE trim_end_matches(_)
trim_end_matches(s) ==
    IF s # <<>> /\ s[Len(s)] = "/"
    THEN trim_end_matches(SubSeq(s, 1, Len(s) - 1)) ELSE s

HasSlash(s) == \E i \in 1..Len(s) : s[i] = "/"

\* str::rsplit_once('/').1, or the whole string when there is no '/'
LastSegment(s) ==
    IF HasSlash(s)
    THEN LET i == CHOOSE k \in 1..Len(s) :
                     s[k] = "/" /\ \A m \in (k+1)..Len(s) : s[m] # "/"
         IN  SubSeq(s, i + 1, Len(s))
    ELSE s

\* format!("{}/{}", left, right)
fmt_path(left, right) == left \o <<"/">> \o right

\* ssm.rs join_path
join_path(left, right) ==
    trim_end_matches(left) \o <<"/">> \o trim_start_matches(right)

\* format!("{}/secrets/{}", path, key)
gsm_name(path, key) == path \o <<"/", "secrets", "/">> \o key

-----------------------------------------------------------------------------
(* Value types of teller-providers/src/config.rs *)

None == <<>>
Some(v) == <<v>>

Inmem == "inmem"
Dotenv == "dotenv"
Hashicorp == "hashicorp"
HashiCorpConsul == "hashicorp_consul"
SSM == "ssm"
AWSSecretsManager == "aws_secretsmanager"
GoogleSecretManager == "google_secretmanager"
Etcd == "etcd"
External == "external"

ProviderKind == {Inmem, Dotenv, Hashicorp, HashiCorpConsul, SSM,
                 AWSSecretsManager, GoogleSecretManager, Etcd, External}

BlobKinds == {Inmem, Dotenv, Hashicorp, AWSSecretsManager}

ProviderInfo(k, name) == [kind |-> k, name |-> name]

\* PathMap::from_path, with the keys map filled in by the caller
PathMap(id, path, keys, optional) ==
    [id |-> id, protocol |-> None, path |-> path, keys |-> keys,
     decrypt |-> FALSE, sensitivity |-> "None", redact_with |-> None,
     source |-> None, sink |-> None, optional |-> optional]

PathMap_from_path(path) == PathMap(<<>>, path, <<>>, FALSE)

from_value(found_val, from_key, to_key, pm, provider) ==
    [value |-> found_val, key |-> to_key, from_key |-> from_key,
     path |-> Some([path |-> pm.path, id |-> pm.id]),
     provider |-> Some(provider),
     meta |-> Some([sensitivity |-> pm.sensitivity,
                    redact_with |-> pm.redact_with,
                    source |-> pm.source, sink |-> pm.sink])]

from_literal(path, key, value, provider) ==
    [value |-> value, key |-> key, from_key |-> key,
     path |-> Some([id |-> path, path |-> path]),
     provider |-> Some(provider), meta |-> None]

\* the KVs of the listed keys, in the order of the list
RECURSIVE MapKeys(_, _, _, _)
MapKeys(ks, data, pm, provider) ==
    IF ks = <<>> THEN <<>>
    ELSE LET k == Head(ks)
         IN  (IF k \in DOMAIN data
              THEN <<from_value(data[k], k, pm.keys[k], pm, provider)>>
              ELSE <<>>)
             \o MapKeys(Tail(ks), data, pm, provider)

RECURSIVE MapAll(_, _, _, _)
MapAll(ks, data, pm, provider) ==
    IF ks = <<>> THEN <<>>
    ELSE <<from_value(data[Head(ks)], Head(ks), Head(ks), pm, provider)>>
         \o MapAll(Tail(ks), data, pm, provider)

\* from_data without the selection by pm.keys
from_data_all(data, pm, provider) ==
    MapAll(SortedKeys(DOMAIN data), data, pm, provider)

from_data(data, pm, provider) ==
    IF DOMAIN pm.keys = {}
    THEN MapAll(SortedKeys(DOMAIN data), data, pm, provider)
    ELSE MapKeys(SortedKeys(DOMAIN pm.keys), data, pm, provider)

-----------------------------------------------------------------------------
(* Dictionaries and stores *)

EmptyMap == <<>>

\* BTreeMap::insert for every kv of the slice, in order
RECURSIVE Overlay(_, _)
Overlay(data, kvs) ==
    IF kvs = <<>> THEN data
    ELSE LET kv == Head(kvs)
             d1 == [k \in DOMAIN data \cup {kv.key} |->
                       IF k = kv.key THEN kv.value ELSE data[k]]
         IN  Overlay(d1, Tail(kvs))

\* BTreeMap::remove for every key of the set
Without(data, ks) == [k \in DOMAIN data \ ks |-> data[k]]

Insert(m, name, v) ==
    [n \in DOMAIN m \cup {name} |-> IF n = name THEN v ELSE m[n]]

Lookup(m, name) == IF name \in DOMAIN m THEN Some(m[name]) ELSE None

Result(res, st, out) == [res |-> res, store |-> st, out |-> out]

-----------------------------------------------------------------------------
(* providers/inmem.rs *)

Inmem_get(self, st, pm) ==
    IF pm.path \notin DOMAIN st
    THEN Result("NotFound", st, <<>>)
    ELSE Result("Ok", st, from_data(st[pm.path], pm, self))

Inmem_put(self, st, pm, kvs) ==
    LET data == IF pm.path \in DOMAIN st THEN st[pm.path] ELSE EmptyMap
    IN  Result("Ok", Insert(st, pm.path, Overlay(data, kvs)), <<>>)

Inmem_del_existing(self, st, pm) ==
    IF DOMAIN pm.keys = {} \/ pm.path \notin DOMAIN st
    THEN Result("Ok", Without(st, {pm.path}), <<>>)
    ELSE Result("Ok", Insert(st, pm.path,
                             Without(st[pm.path], DOMAIN pm.keys)), <<>>)

Inmem_del(self, st, pm) ==
    IF DOMAIN pm.keys = {}
    THEN Result("Ok", Without(st, {pm.path}), <<>>)
    ELSE LET data == IF pm.path \in DOMAIN st THEN st[pm.path] ELSE EmptyMap
         IN  Result("Ok", Insert(st, pm.path, Without(data, DOMAIN pm.keys)), <<>>)

-----------------------------------------------------------------------------
(* providers/dotenv.rs.  The store maps a file path to the dictionary its  *)
(* text parses to; every file is written by save or create_empty_file, so   *)
(* a file has length 0 exactly when its dictionary is empty.  A path that   *)
(* ends in '/' cannot be opened or created as a file.                       *)

IsFilePath(path) == path # <<>> /\ path[Len(path)] # "/"

load(st, path, mode) ==
    IF ~IsFilePath(path) \/ path \notin DOMAIN st
    THEN [res |-> "IO", env |-> EmptyMap]
    ELSE IF mode = "Get" /\ DOMAIN st[path] = {}
    THEN [res |-> "NotFound", env |-> EmptyMap]
    ELSE [res |-> "Ok", env |-> st[path]]

save(st, path, data) == Insert(st, path, data)

\* File::create truncates an existing file
create_empty_file(st, path) ==
    IF IsFilePath(path)
    THEN [res |-> "Ok", store |-> Insert(st, path, EmptyMap)]
    ELSE [res |-> "IO", store |-> st]

\* the closure Dotenv::put hands to load_modify_save
put_modify(data, kvs) == Overlay(data, kvs)

\* the closure Dotenv::del hands to load_modify_save
del_modify(data, pm) ==
    IF DOMAIN pm.keys = {} THEN EmptyMap ELSE Without(data, DOMAIN pm.keys)

\* modify is put_modify over arg (mode Put) or del_modify (mode Del)
load_modify_save(create_on_put, st, pm, arg, mode) ==
    LET modify(data) == IF mode = "Put" THEN put_modify(data, arg)
                        ELSE del_modify(data, pm)
        created == IF mode = "Put" /\ create_on_put
                   THEN create_empty_file(st, pm.path)
                   ELSE [res |-> "Ok", store |-> st]
        loaded  == load(created.store, pm.path, mode)
    IN  IF created.res # "Ok" THEN Result("GetError", st, <<>>)
        ELSE IF loaded.res # "Ok" THEN Result(loaded.res, created.store, <<>>)
        ELSE Result("Ok", save(created.store, pm.path, modify(loaded.env)), <<>>)

Dotenv_get(self, st, pm) ==
    LET loaded == load(st, pm.path, "Get")
    IN  IF loaded.res # "Ok" THEN Result(loaded.res, st, <<>>)
        ELSE Result("Ok", st, from_data(loaded.env, pm, self))

Dotenv_put(self, create_on_put, st, pm, kvs) ==
    load_modify_save(create_on_put, st, pm, kvs, "Put")

Dotenv_del(self, create_on_put, st, pm) ==
    load_modify_save(create_on_put, st, pm, <<>>, "Del")

-----------------------------------------------------------------------------
(* providers/hashicorp_vault.rs.  The store maps a full path to the        *)
(* dictionary of its latest version; a deleted or never written path is    *)
(* absent and reads as 404.  kv1 and kv2 mounts behave alike here.          *)

parse_path(pm) == IF HasSlash(pm.path) THEN "Ok" ELSE "Message"

Vault_get_data(st, pm) ==
    IF parse_path(pm) # "Ok" THEN [res |-> "Message", data |-> EmptyMap]
    ELSE IF pm.path \notin DOMAIN st THEN [res |-> "NotFound", data |-> EmptyMap]
    ELSE [res |-> "Ok", data |-> st[pm.path]]

get_data_or_empty(st, pm) ==
    LET r == Vault_get_data(st, pm)
    IN  IF r.res = "NotFound" THEN [res |-> "Ok", data |-> EmptyMap] ELSE r

Vault_put_data(st, pm, data) ==
    IF parse_path(pm) # "Ok" THEN [res |-> "Message", store |-> st]
    ELSE [res |-> "Ok", store |-> Insert(st, pm.path, data)]

Vault_get(self, st, pm) ==
    LET r == Vault_get_data(st, pm)
    IN  IF r.res = "Ok" THEN Result("Ok", st, from_data(r.data, pm, self))
        ELSE IF r.res = "NotFound" THEN Result("NotFound", st, <<>>)
        ELSE Result("GetError", st, <<>>)

Vault_put(self, st, pm, kvs) ==
    LET r == get_data_or_empty(st, pm)
        w == Vault_put_data(st, pm, Overlay(r.data, kvs))
    IN  IF r.res # "Ok" \/ w.res # "Ok" THEN Result("PutError", st, <<>>)
        ELSE Result("Ok", w.store, <<>>)

Vault_del(self, st, pm) ==
    IF DOMAIN pm.keys # {}
    THEN LET r == get_data_or_empty(st, pm)
             w == Vault_put_data(st, pm, Without(r.data, DOMAIN pm.keys))
         IN  IF r.res # "Ok" \/ w.res # "Ok" THEN Result("DeleteError", st, <<>>)
             ELSE Result("Ok", w.store, <<>>)
    ELSE IF parse_path(pm) # "Ok" THEN Result("Message", st, <<>>)
    ELSE Result("Ok", Without(st, {pm.path}), <<>>)

-----------------------------------------------------------------------------
(* providers/aws_secretsmanager.rs.  The store maps a secret id to the     *)
(* dictionary in its secret string; a deleted secret is absent.             *)

AWS_get_data(mode, st, pm) ==
    IF pm.path \in DOMAIN st THEN [res |-> "Ok", data |-> Some(st[pm.path])]
    ELSE IF mode = "Get" THEN [res |-> "NotFound", data |-> None]
    ELSE [res |-> "Ok", data |-> None]

unwrap_or_default(o) == IF o = None THEN EmptyMap ELSE o[1]

\* put_secret_value when the secret exists, create_secret otherwise
AWS_put_data(st, pm, data) == Result("Ok", Insert(st, pm.path, data), <<>>)

AWS_get(self, st, pm) ==
    LET r == AWS_get_data("Get", st, pm)
    IN  IF r.res # "Ok" THEN Result(r.res, st, <<>>)
        ELSE IF r.data = None THEN Result("Ok", st, <<>>)
        ELSE Result("Ok", st, from_data(r.data[1], pm, self))

AWS_put(self, st, pm, kvs) ==
    LET r == AWS_get_data("Put", st, pm)
    IN  IF r.res # "Ok" THEN Result(r.res, st, <<>>)
        ELSE AWS_put_data(st, pm, Overlay(unwrap_or_default(r.data), kvs))

AWS_del(self, st, pm) ==
    IF DOMAIN pm.keys = {}
    THEN Result("Ok", Without(st, {pm.path}), <<>>)
    ELSE LET r == AWS_get_data("Del", st, pm)
         IN  IF r.res # "Ok" THEN Result(r.res, st, <<>>)
             ELSE AWS_put_data(st, pm,
                      Without(unwrap_or_default(r.data), DOMAIN pm.keys))

-----------------------------------------------------------------------------
(* Tree-mapped backends: the store maps a full backend name to a value.    *)
(* A listing returns the names that start with the requested prefix, in    *)
(* ascending order.                                                         *)

ListPrefix(st, prefix) == SortedKeys({n \in DOMAIN st : starts_with(n, prefix)})

\* one point write per kv, in slice order, at the names the provider forms
RECURSIVE PutAll(_, _, _)
PutAll(st, names, kvs) ==
    IF kvs = <<>> THEN st
    ELSE PutAll(Insert(st, Head(names), Head(kvs).value), Tail(names), Tail(kvs))

\* the backend name a provider forms for a key: join_path, format!("{}/{}")
\* or format!("{}/secrets/{}")
backend_name(style, path, key) ==
    CASE style = "join" -> join_path(path, key)
      [] style = "fmt"  -> fmt_path(path, key)
      [] style = "gsm"  -> gsm_name(path, key)

PutEach(st, pm, kvs, style) ==
    PutAll(st, [i \in 1..Len(kvs) |-> backend_name(style, pm.path, kvs[i].key)],
           kvs)

NamesOf(pm, style) == {backend_name(style, pm.path, k) : k \in DOMAIN pm.keys}

-----------------------------------------------------------------------------
(* providers/ssm.rs *)

RECURSIVE SSM_list_kvs(_, _, _, _)
SSM_list_kvs(self, st, pm, names) ==
    IF names = <<>> THEN <<>>
    ELSE LET ssm_key      == Head(names)
             relative_key == trim_start_matches(strip_prefix(ssm_key, pm.path))
         IN  <<from_value(st[ssm_key], relative_key, relative_key, pm, self)>>
             \o SSM_list_kvs(self, st, pm, Tail(names))

\* get_parameter for every listed key; a missing parameter is an SDK error
RECURSIVE SSM_get_keys(_, _, _, _)
SSM_get_keys(self, st, pm, ks) ==
    IF ks = <<>> THEN [res |-> "Ok", out |-> <<>>]
    ELSE LET k    == Head(ks)
             name == join_path(pm.path, k)
             rest == SSM_get_keys(self, st, pm, Tail(ks))
         IN  IF name \notin DOMAIN st THEN [res |-> "GetError", out |-> <<>>]
             ELSE IF rest.res # "Ok" THEN rest
             ELSE [res |-> "Ok",
                   out |-> <<from_value(st[name], k, pm.keys[k], pm, self)>>
                           \o rest.out]

SSM_get(self, st, pm) ==
    IF DOMAIN pm.keys = {}
    THEN LET names == ListPrefix(st, pm.path)
         IN  IF names = <<>> THEN Result("NotFound", st, <<>>)
             ELSE Result("Ok", st, SSM_list_kvs(self, st, pm, names))
    ELSE LET r == SSM_get_keys(self, st, pm, SortedKeys(DOMAIN pm.keys))
         IN  Result(r.res, st, r.out)

SSM_put(self, st, pm, kvs) == Result("Ok", PutEach(st, pm, kvs, "fmt"), <<>>)

\* delete_parameter of a missing name is accepted (handle_delete)
SSM_del(self, st, pm) ==
    IF DOMAIN pm.keys = {}
    THEN LET r == SSM_get(self, st, pm)
         IN  IF r.res # "Ok" THEN Result(r.res, st, <<>>)
             ELSE Result("Ok",
                         Without(st, {join_path(pm.path, r.out[i].key) :
                                          i \in 1..Len(r.out)}),
                         <<>>)
    ELSE Result("Ok", Without(st, NamesOf(pm, "join")), <<>>)

-----------------------------------------------------------------------------
(* providers/etcd.rs *)

RECURSIVE Etcd_results(_, _, _, _)
Etcd_results(self, st, pm, names) ==
    IF names = <<>> THEN <<>>
    ELSE LET name == Head(names)
             key  == IF starts_with(name, pm.path)
                     THEN trim_start_matches(strip_prefix(name, pm.path))
                     ELSE name
         IN  <<from_value(st[name], key, key, pm, self)>>
             \o Etcd_results(self, st, pm, Tail(names))

\* the point reads, in pm.keys order; a missing key fetches nothing
RECURSIVE Etcd_fetch(_, _, _)
Etcd_fetch(st, pm, ks) ==
    IF ks = <<>> THEN <<>>
    ELSE (IF fmt_path(pm.path, Head(ks)) \in DOMAIN st
          THEN <<fmt_path(pm.path, Head(ks))>> ELSE <<>>)
         \o Etcd_fetch(st, pm, Tail(ks))

Etcd_get(self, st, pm) ==
    LET res == IF DOMAIN pm.keys = {} THEN ListPrefix(st, pm.path)
               ELSE Etcd_fetch(st, pm, SortedKeys(DOMAIN pm.keys))
    IN  IF res = <<>> THEN Result("NotFound", st, <<>>)
        ELSE Result("Ok", st, Etcd_results(self, st, pm, res))

Etcd_put(self, st, pm, kvs) == Result("Ok", PutEach(st, pm, kvs, "fmt"), <<>>)

Etcd_del(self, st, pm) ==
    IF DOMAIN pm.keys = {}
    THEN Result("Ok", Without(st, {n \in DOMAIN st : starts_with(n, pm.path)}), <<>>)
    ELSE Result("Ok", Without(st, NamesOf(pm, "fmt")), <<>>)

-----------------------------------------------------------------------------
(* providers/hashicorp_consul.rs.  A recursive read or a key listing of a  *)
(* prefix with no keys answers 404.                                         *)

RECURSIVE Consul_results(_, _, _, _)
Consul_results(self, st, pm, names) ==
    IF names = <<>> THEN <<>>
    ELSE LET key == LastSegment(Head(names))
         IN  <<from_value(st[Head(names)], key, key, pm, self)>>
             \o Consul_results(self, st, pm, Tail(names))

Consul_get(self, st, pm) ==
    LET names == ListPrefix(st, pm.path)
    IN  IF names = <<>> THEN Result("NotFound", st, <<>>)
        ELSE Result("Ok", st, Consul_results(self, st, pm, names))

Consul_put(self, st, pm, kvs) == Result("Ok", PutEach(st, pm, kvs, "fmt"), <<>>)

Consul_del(self, st, pm) ==
    IF DOMAIN pm.keys = {}
    THEN LET names == ListPrefix(st, pm.path)
         IN  IF names = <<>> THEN Result("DeleteError", st, <<>>)
             ELSE Result("Ok", Without(st, {names[i] : i \in 1..Len(names)}), <<>>)
    ELSE Result("Ok", Without(st, NamesOf(pm, "fmt")), <<>>)

-----------------------------------------------------------------------------
(* providers/google_secretmanager.rs, over a client that keeps one value   *)
(* per resource name (the GSM trait).                                       *)

RECURSIVE GSM_list_kvs(_, _, _, _)
GSM_list_kvs(self, st, pm, names) ==
    IF names = <<>> THEN <<>>
    ELSE LET resource == Head(names)
         IN  (IF HasSlash(resource)
              THEN <<from_value(st[resource], LastSegment(resource),
                                LastSegment(resource), pm, self)>>
              ELSE <<>>)
             \o GSM_list_kvs(self, st, pm, Tail(names))

RECURSIVE GSM_get_keys(_, _, _, _)
GSM_get_keys(self, st, pm, ks) ==
    IF ks = <<>> THEN <<>>
    ELSE LET k    == Head(ks)
             resp == Lookup(st, gsm_name(pm.path, k))
         IN  (IF resp # None
              THEN <<from_value(resp[1], k, pm.keys[k], pm, self)>>
              ELSE <<>>)
             \o GSM_get_keys(self, st, pm, Tail(ks))

GSM_get(self, st, pm) ==
    LET out == IF DOMAIN pm.keys = {}
               THEN GSM_list_kvs(self, st, pm, ListPrefix(st, pm.path))
               ELSE GSM_get_keys(self, st, pm, SortedKeys(DOMAIN pm.keys))
    IN  IF out = <<>> THEN Result("NotFound", st, <<>>)
        ELSE Result("Ok", st, out)

GSM_put(self, st, pm, kvs) == Result("Ok", PutEach(st, pm, kvs, "gsm"), <<>>)

GSM_del(self, st, pm) ==
    IF DOMAIN pm.keys = {}
    THEN Result("Ok", Without(st, {n \in DOMAIN st : starts_with(n, pm.path)}), <<>>)
    ELSE Result("Ok", Without(st, NamesOf(pm, "gsm")), <<>>)

-----------------------------------------------------------------------------
(* providers/external.rs.  The executable teller-provider-<extension> is   *)
(* user supplied; ExtProgram is its subprocess contract: it keeps one value *)
(* per (path, key), "get" prints the value, "put" stores what it reads on  *)
(* stdin and "del" drops the path.  Command::output gives the child an      *)
(* empty stdin.                                                             *)

EmptyStdin == ""

ExtProgram(action, st, args, stdin) ==
    CASE action = "get" ->
            [status |-> 0, store |-> st,
             stdout |-> IF <<args[1], args[2]>> \in DOMAIN st
                        THEN st[<<args[1], args[2]>>] ELSE ""]
      [] action = "put" ->
            [status |-> 0, stdout |-> "",
             store |-> Insert(st, <<args[1], args[2]>>, stdin)]
      [] action = "del" ->
            [status |-> 0, stdout |-> "",
             store |-> Without(st, {n \in DOMAIN st : n[1] = args[1]})]

\* prepare_command(action, args).output(): no value is passed to the child
prepare_command(action, st, args) == ExtProgram(action, st, args, EmptyStdin)

RECURSIVE External_get_keys(_, _, _, _)
External_get_keys(self, st, pm, ks) ==
    IF ks = <<>> THEN <<>>
    ELSE LET from_key == Head(ks)
             output   == prepare_command("get", st, <<pm.path, from_key>>)
         IN  <<from_value(output.stdout, from_key, pm.keys[from_key], pm, self)>>
             \o External_get_keys(self, st, pm, Tail(ks))

External_get(self, st, pm) ==
    LET res == External_get_keys(self, st, pm, SortedKeys(DOMAIN pm.keys))
    IN  IF res = <<>> THEN Result("NotFound", st, <<>>)
        ELSE Result("Ok", st, res)

RECURSIVE External_put_each(_, _, _)
External_put_each(st, pm, kvs) ==
    IF kvs = <<>> THEN [res |-> "Ok", store |-> st]
    ELSE LET output == prepare_command("put", st, <<pm.path, Head(kvs).key>>)
         IN  IF output.status # 0 THEN [res |-> "PutError", store |-> output.store]
             ELSE External_put_each(output.store, pm, Tail(kvs))

External_put(self, st, pm, kvs) ==
    LET r == External_put_each(st, pm, kvs)
    IN  Result(r.res, r.store, <<>>)

\* the same command whatever pm.keys holds
External_del(self, st, pm) ==
    LET output == prepare_command("del", st, <<pm.path>>)
    IN  IF output.status # 0 THEN Result("PutError", output.store, <<>>)
        ELSE Result("Ok", output.store, <<>>)

-----------------------------------------------------------------------------
(* The Provider trait (teller-providers/src/lib.rs): dynamic dispatch on   *)
(* the concrete provider.  o is the instance's option flag.                 *)

Provider_get(self, o, st, pm) ==
    CASE self.kind = Inmem               -> Inmem_get(self, st, pm)
      [] self.kind = Dotenv              -> Dotenv_get(self, st, pm)
      [] self.kind = Hashicorp           -> Vault_get(self, st, pm)
      [] self.kind = AWSSecretsManager   -> AWS_get(self, st, pm)
      [] self.kind = SSM                 -> SSM_get(self, st, pm)
      [] self.kind = Etcd                -> Etcd_get(self, st, pm)
      [] self.kind = HashiCorpConsul     -> Consul_get(self, st, pm)
      [] self.kind = GoogleSecretManager -> GSM_get(self, st, pm)
      [] self.kind = External            -> External_get(self, st, pm)

Provider_put(self, o, st, pm, kvs) ==
    CASE self.kind = Inmem               -> Inmem_put(self, st, pm, kvs)
      [] self.kind = Dotenv              -> Dotenv_put(self, o, st, pm, kvs)
      [] self.kind = Hashicorp           -> Vault_put(self, st, pm, kvs)
      [] self.kind = AWSSecretsManager   -> AWS_put(self, st, pm, kvs)
      [] self.kind = SSM                 -> SSM_put(self, st, pm, kvs)
      [] self.kind = Etcd                -> Etcd_put(self, st, pm, kvs)
      [] self.kind = HashiCorpConsul     -> Consul_put(self, st, pm, kvs)
      [] self.kind = GoogleSecretManager -> GSM_put(self, st, pm, kvs)
      [] self.kind = External            -> External_put(self, st, pm, kvs)

Provider_del(self, o, st, pm) ==
    CASE self.kind = Inmem               -> Inmem_del(self, st, pm)
      [] self.kind = Dotenv              -> Dotenv_del(self, o, st, pm)
      [] self.kind = Hashicorp           -> Vault_del(self, st, pm)
      [] self.kind = AWSSecretsManager   -> AWS_del(self, st, pm)
      [] self.kind = SSM                 -> SSM_del(self, st, pm)
      [] self.kind = Etcd                -> Etcd_del(self, st, pm)
      [] self.kind = HashiCorpConsul     -> Consul_del(self, st, pm)
      [] self.kind = GoogleSecretManager -> GSM_del(self, st, pm)
      [] self.kind = External            -> External_del(self, st, pm)

-----------------------------------------------------------------------------
(* Inputs *)

Path1 == <<"s", "/", "a">>          \* "s/a"
Path2 == <<"s", "/", "a", "/">>     \* "s/a/"
Paths == {Path1, Path2}

KeyA == <<"a">>
KeyB == <<"b">>
KeyC == <<"c">>
KeyX == <<"x">>
Keys == {KeyA, KeyB, KeyC}
Values == {"1", "2"}

\* every dictionary over Keys
Dicts == UNION {[S -> Values] : S \in SUBSET Keys}

\* the key maps the contract session uses: all keys, one key kept, one key
\* renamed, two keys (the second renamed)
SessionKeyMaps ==
    {<<>>, [k \in {KeyB} |-> KeyB], [k \in {KeyB} |-> KeyX],
     [k \in {KeyA, KeyC} |-> IF k = KeyA THEN KeyA ELSE KeyX]}

\* a slice with one KV::from_literal per entry of d, in key order
KvsOf(d, provider) ==
    LET ks == SortedKeys(DOMAIN d)
    IN  [i \in 1..Len(ks) |-> from_literal(<<>>, ks[i], d[ks[i]], provider)]

-----------------------------------------------------------------------------
(* Values of the variables a specification does not use *)

FdIdle  == fd_data = <<>> /\ fd_pm = <<>> /\ fd_provider = <<>> /\ fd_out = <<>>
CfgIdle == cfg_text = <<>> /\ cfg_vars = <<>> /\ cfg_loaded = <<>>
ColIdle == /\ t_config = <<>> /\ t_registry = <<>> /\ t_stores = <<>>
           /\ t_pc = "off"
           /\ t_i = 0 /\ t_j = 0 /\ t_res = <<>> /\ t_calls = <<>>
           /\ t_ret = <<>> /\ t_op = <<>>
RedIdle  == /\ r_kvs = <<>> /\ r_reader = <<>> /\ r_pos = 0 /\ r_writer = <<>>
            /\ r_ret = <<>>
ScanIdle == /\ s_files = <<>> /\ s_kvs = <<>> /\ s_opts = <<>> /\ s_walk = <<>>
            /\ s_ret = <<>>
OrdIdle  == k_kvs = <<>> /\ k_cmp = <<>>
PosIdle  == v_text = <<>> /\ v_pos = 0 /\ v_out = <<>>
ExecIdle == /\ e_env = <<>> /\ e_kvs = <<>> /\ e_opts = <<>> /\ e_words = <<>>
            /\ e_child = <<>> /\ e_ret = <<>>
TplIdle  == tp_template = <<>> /\ tp_kvs = <<>> /\ tp_ret = <<>>
RegIdle == g_providers = <<>> /\ g_loaded = <<>> /\ g_i = 0 /\ g_ret = <<>> /\ g_lookup = <<>>
FltIdle == b_call = <<>> /\ b_script = <<>> /\ b_log = <<>> /\ b_ret = <<>>
ConcIdle == m_init = <<>> /\ m_store = <<>> /\ m_lock = <<>> /\ m_proc = <<>>
DupIdle == d_kvs = <<>> /\ d_env = <<>> /\ d_data = <<>> /\ d_tpl = <<>>
ProvIdle == kind = Inmem /\ opt = FALSE /\ store = <<>> /\ hist = <<>>

\* every component but g is idle
IdleExcept(g) ==
    /\ IF g = "prov" THEN TRUE ELSE ProvIdle
    /\ IF g = "fd"   THEN TRUE ELSE FdIdle
    /\ IF g = "cfg"  THEN TRUE ELSE CfgIdle
    /\ IF g = "col"  THEN TRUE ELSE ColIdle
    /\ IF g = "red"  THEN TRUE ELSE RedIdle
    /\ IF g = "scan" THEN TRUE ELSE ScanIdle
    /\ IF g = "ord"  THEN TRUE ELSE OrdIdle
    /\ IF g = "pos"  THEN TRUE ELSE PosIdle
    /\ IF g = "exec" THEN TRUE ELSE ExecIdle
    /\ IF g = "tpl"  THEN TRUE ELSE TplIdle
    /\ IF g = "reg" THEN TRUE ELSE RegIdle
    /\ IF g = "flt" THEN TRUE ELSE FltIdle
    /\ IF g = "conc" THEN TRUE ELSE ConcIdle
    /\ IF g = "dup" THEN TRUE ELSE DupIdle

-----------------------------------------------------------------------------
(* A client of one provider instance, as providers/test_utils.rs drives    *)
(* it: a put, then a put, a del or a get, then a get.  hist keeps every    *)
(* call with the PathMap, the slice, the backend before the call and the   *)
(* Result.                                                                  *)

self_info == ProviderInfo(kind, KeyA)

\* the PathMap of a call: PathMap::from_path plus keys (and protocol: kv1
\* when the vault instance is used with the kv1 engine)
SessionPm(path, keys) ==
    [PathMap_from_path(path) EXCEPT
        !.keys = keys,
        !.protocol = IF kind = Hashicorp /\ opt THEN Some("kv1") ELSE None]

Call(op, pm, kvs, r) ==
    [op |-> op, pm |-> pm, kvs |-> kvs, pre |-> store,
     res |-> r.res, out |-> r.out]

ProvInit ==
    /\ kind \in ProviderKind
    /\ opt \in (IF kind \in {Dotenv, Hashicorp} THEN BOOLEAN ELSE {FALSE})
    /\ store \in (IF kind = Dotenv THEN {<<>>, [p \in {Path1} |-> EmptyMap]}
                  ELSE {<<>>})
    /\ hist = <<>>
    /\ IdleExcept("prov")

Put(path, d) ==
    /\ Len(hist) \in {0, 1}
    /\ LET pm  == SessionPm(path, <<>>)
           kvs == KvsOf(d, self_info)
           r   == Provider_put(self_info, opt, store, pm, kvs)
       IN  /\ store' = r.store
           /\ hist' = Append(hist, Call("put", pm, kvs, r))
    /\ UNCHANGED <<kind, opt, notProv>>

Del(path, keys) ==
    /\ Len(hist) = 1
    /\ LET pm == SessionPm(path, keys)
           r  == Provider_del(self_info, opt, store, pm)
       IN  /\ store' = r.store
           /\ hist' = Append(hist, Call("del", pm, <<>>, r))
    /\ UNCHANGED <<kind, opt, notProv>>

Get(path, keys) ==
    /\ Len(hist) \in {1, 2}
    /\ LET pm == SessionPm(path, keys)
           r  == Provider_get(self_info, opt, store, pm)
       IN  /\ store' = r.store
           /\ hist' = Append(hist, Call("get", pm, <<>>, r))
    /\ UNCHANGED <<kind, opt, notProv>>

ProvNext ==
    \/ \E path \in Paths, d \in Dicts \ {<<>>} : Put(path, d)
    \/ \E path \in Paths, keys \in SessionKeyMaps : Del(path, keys)
    \/ \E path \in Paths, keys \in SessionKeyMaps : Get(path, keys)

SpecProviders == ProvInit /\ [][ProvNext]_vars

\* the backend after call i
PostStore(i) == IF i < Len(hist) THEN hist[i + 1].pre ELSE store

HasKV(out, k, v) == \E n \in 1..Len(out) : out[n].key = k /\ out[n].value = v
HasKey(out, k) == \E n \in 1..Len(out) : out[n].key = k

-----------------------------------------------------------------------------
(* The provider contract *)

\* the dictionary d overlaid with the slice kvs, entry by entry
IsOverlay(post, d, kvs) ==
    /\ DOMAIN post = DOMAIN d \cup {kvs[n].key : n \in 1..Len(kvs)}
    /\ \A n \in 1..Len(kvs) : post[kvs[n].key] = kvs[n].value
    /\ \A k \in DOMAIN d :
          (\A n \in 1..Len(kvs) : kvs[n].key # k) => post[k] = d[k]

\* C1: on a blob-mapped provider or Inmem, a successful put on a path that
\* already holds a dictionary D leaves the path holding D overlaid with kvs:
\* the keys of D that kvs does not name keep their values.
C1_PutKeepsSiblings ==
    \A i \in 1..Len(hist) :
        (/\ kind \in BlobKinds
         /\ hist[i].op = "put" /\ hist[i].res = "Ok"
         /\ hist[i].pm.path \in DOMAIN hist[i].pre)
        => /\ hist[i].pm.path \in DOMAIN PostStore(i)
           /\ IsOverlay(PostStore(i)[hist[i].pm.path],
                        hist[i].pre[hist[i].pm.path], hist[i].kvs)

\* C2: after a successful put, a get on the same path succeeds and returns
\* the written kvs by (key, value): all of them when pm.keys is empty, the
\* value of k when pm.keys = {k: k} names a written key.
C2_PutGetRoundTrip ==
    \A i \in 1..(Len(hist) - 1) :
        LET p == hist[i]
            g == hist[i + 1]
            written == {n \in 1..Len(p.kvs) :
                           \/ DOMAIN g.pm.keys = {}
                           \/ /\ DOMAIN g.pm.keys = {p.kvs[n].key}
                              /\ g.pm.keys[p.kvs[n].key] = p.kvs[n].key}
        IN  (/\ p.op = "put" /\ p.res = "Ok"
             /\ g.op = "get" /\ g.pm.path = p.pm.path
             /\ written # {})
            => /\ g.res = "Ok"
               /\ \A n \in written : HasKV(g.out, p.kvs[n].key, p.kvs[n].value)

\* C3: after put(pm, {a, b, c}), del with keys = {b} succeeds and a get with
\* empty keys returns a and c with their values and does not return b.
C3_SubsetDelete ==
    (/\ Len(hist) = 3
     /\ hist[1].op = "put" /\ hist[1].res = "Ok"
     /\ {hist[1].kvs[n].key : n \in 1..Len(hist[1].kvs)} = Keys
     /\ hist[2].op = "del" /\ DOMAIN hist[2].pm.keys = {KeyB}
     /\ hist[3].op = "get" /\ DOMAIN hist[3].pm.keys = {}
     /\ hist[2].pm.path = hist[1].pm.path
     /\ hist[3].pm.path = hist[1].pm.path)
    => /\ hist[2].res = "Ok"
       /\ hist[3].res = "Ok"
       /\ \A n \in 1..Len(hist[1].kvs) :
             hist[1].kvs[n].key # KeyB
             => HasKV(hist[3].out, hist[1].kvs[n].key, hist[1].kvs[n].value)
       /\ ~HasKey(hist[3].out, KeyB)

\* C4: after a put and a successful del with empty keys on the same path,
\* get answers NotFound.
C4_FullDelete ==
    (/\ Len(hist) = 3
     /\ hist[1].op = "put" /\ hist[1].res = "Ok"
     /\ hist[2].op = "del" /\ hist[2].res = "Ok"
     /\ DOMAIN hist[2].pm.keys = {}
     /\ hist[3].op = "get" /\ DOMAIN hist[3].pm.keys = {}
     /\ hist[2].pm.path = hist[1].pm.path
     /\ hist[3].pm.path = hist[1].pm.path)
    => hist[3].res = "NotFound"

\* C5: with a non-empty pm.keys every KV a get returns is the rename of a
\* listed entry: key = to and from_key = from for some (from, to) of pm.keys.
C5_RenameSemantics ==
    \A i \in 1..Len(hist) :
        (hist[i].op = "get" /\ hist[i].res = "Ok" /\ DOMAIN hist[i].pm.keys # {})
        => \A n \in 1..Len(hist[i].out) :
              \E from \in DOMAIN hist[i].pm.keys :
                  /\ hist[i].out[n].from_key = from
                  /\ hist[i].out[n].key = hist[i].pm.keys[from]

-----------------------------------------------------------------------------
(* KV::from_data as a function of its three arguments *)

\* key maps from any subset of Keys, each key kept, renamed or mapped onto a
FdKeyMaps == UNION {[S -> {KeyA, KeyX}] : S \in SUBSET Keys}

FdPathMaps ==
    {[PathMap(id, Path1, keys, FALSE) EXCEPT
         !.sensitivity = m[1], !.redact_with = m[2],
         !.source = m[3], !.sink = m[4]] :
       id \in {<<"x">>}, keys \in FdKeyMaps,
       m \in {<<"None", None, None, None>>,
              <<"High", Some("***"), Some("src"), Some("snk")>>}}

FdInit ==
    /\ fd_data \in Dicts
    /\ fd_pm \in FdPathMaps
    /\ fd_provider \in {ProviderInfo(Inmem, KeyA), ProviderInfo(Dotenv, KeyB)}
    /\ fd_out = None
    /\ IdleExcept("fd")

FromData ==
    /\ fd_out = None
    /\ fd_out' = Some(from_data(fd_data, fd_pm, fd_provider))
    /\ UNCHANGED <<fd_data, fd_pm, fd_provider, notFd>>

FdNext == FromData

SpecFromData == FdInit /\ [][FdNext]_vars

\* every KV of out is tagged with the provider and the PathMap's fields
Tagged(out, pm, provider) ==
    \A n \in 1..Len(out) :
        /\ out[n].provider = Some(provider)
        /\ out[n].path = Some([id |-> pm.id, path |-> pm.path])
        /\ out[n].meta = Some([sensitivity |-> pm.sensitivity,
                               redact_with |-> pm.redact_with,
                               source |-> pm.source, sink |-> pm.sink])

\* C6: with empty pm.keys from_data returns one KV per entry of data with
\* key = from_key = the stored key; with non-empty pm.keys it returns one KV
\* per listed (from, to) whose from is stored, in ascending order of from,
\* and nothing else; every KV carries the provider and the PathMap's fields.
C6_FromDataProjection ==
    fd_out # None =>
        LET out == fd_out[1]
            listed == IF DOMAIN fd_pm.keys = {} THEN DOMAIN fd_data
                      ELSE DOMAIN fd_pm.keys \cap DOMAIN fd_data
        IN  /\ Len(out) = Cardinality(listed)
            /\ \A k \in listed : \E n \in 1..Len(out) : out[n].from_key = k
            /\ \A n \in 1..Len(out) :
                  /\ out[n].from_key \in listed
                  /\ out[n].value = fd_data[out[n].from_key]
                  /\ out[n].key = IF DOMAIN fd_pm.keys = {} THEN out[n].from_key
                                  ELSE fd_pm.keys[out[n].from_key]
            /\ \A m, n \in 1..Len(out) :
                  m < n => StrLess(out[m].from_key, out[n].from_key)
            /\ Tagged(out, fd_pm, fd_provider)

\* a projection that drops an unlisted stored key, skips a listed key that is
\* not stored and renames a key
C6_Witness ==
    /\ fd_out # None
    /\ fd_pm.sensitivity = "High"
    /\ DOMAIN fd_data = {KeyA, KeyB}
    /\ DOMAIN fd_pm.keys = {KeyB, KeyC}
    /\ fd_pm.keys[KeyB] = KeyX
    /\ Len(fd_out[1]) = 1
    /\ fd_out[1][1].key = KeyX /\ fd_out[1][1].from_key = KeyB

-----------------------------------------------------------------------------
(* teller-core/src/config.rs: the config loader.  A config text is the     *)
(* YAML document it spells: provider name -> [kind, maps], each map with    *)
(* id, path and keys; a value of a keys entry may be the placeholder        *)
(* {{v}}, which the template pre-pass replaces from the variables map.      *)

EqEq == <<"=", "=">>               \* the literal "=="
Placeholder == <<"{{v}}">>

\* Tera::one_off over one scalar of the text
RenderScalar(tok, vs) ==
    IF tok = Placeholder
    THEN (IF "v" \in DOMAIN vs THEN Some(vs["v"]) ELSE None)
    ELSE Some(tok)

\* the scalar tokens that occur in the text
TextTokens(text) ==
    UNION {UNION {{text[name].maps[n].keys[k] : k \in DOMAIN text[name].maps[n].keys} :
                     n \in 1..Len(text[name].maps)} :
              name \in DOMAIN text}

\* serde_yaml::from_str of the rendered text: missing fields take their
\* serde defaults
Deserialize(text, vs) ==
    [providers |->
        [name \in DOMAIN text |->
            [kind |-> text[name].kind, options |-> None, name |-> None,
             maps |-> [n \in 1..Len(text[name].maps) |->
                 LET m == text[name].maps[n]
                 IN  PathMap(m.id, m.path,
                             [k \in DOMAIN m.keys |-> RenderScalar(m.keys[k], vs)[1]],
                             FALSE)]]]]

\* every value is overwritten by its key
apply_eqeq_all(config) ==
    [providers |->
        [name \in DOMAIN config.providers |->
            [config.providers[name] EXCEPT
                !.maps = [n \in 1..Len(@) |->
                    [@[n] EXCEPT !.keys = [k \in DOMAIN @ |-> k]]]]]]

apply_eqeq(config) ==
    [providers |->
        [name \in DOMAIN config.providers |->
            [config.providers[name] EXCEPT
                !.maps = [n \in 1..Len(@) |->
                    [@[n] EXCEPT !.keys =
                        [k \in DOMAIN @ |-> IF @[k] = EqEq THEN k ELSE @[k]]]]]]]

with_vars(text, vs) ==
    IF \E tok \in TextTokens(text) : RenderScalar(tok, vs) = None
    THEN [res |-> "Template", config |-> None]
    ELSE [res |-> "Ok", config |-> Some(apply_eqeq(Deserialize(text, vs)))]

from_text(text) == with_vars(text, <<>>)

\* fs::read_to_string of a file that holds the text
Config_from_path(file) == from_text(file)

CfgTokens == {EqEq, KeyX, Placeholder}
CfgKeyMaps == UNION {[S -> CfgTokens] : S \in SUBSET {KeyA, EqEq}}

CfgTexts ==
    UNION {[S -> {[kind |-> Inmem,
                   maps |-> <<[id |-> KeyX, path |-> Path1, keys |-> keys]>>] :
                  keys \in CfgKeyMaps}] :
           S \in {{KeyA}, {KeyA, KeyB}}}

CfgInit ==
    /\ cfg_text \in CfgTexts
    /\ cfg_vars \in {<<>>, [x \in {"v"} |-> EqEq], [x \in {"v"} |-> KeyB]}
    /\ cfg_loaded = None
    /\ IdleExcept("cfg")

WithVars ==
    /\ cfg_loaded = None
    /\ cfg_loaded' = Some(with_vars(cfg_text, cfg_vars))
    /\ UNCHANGED <<cfg_text, cfg_vars, notCfg>>

FromText ==
    /\ cfg_loaded = None
    /\ cfg_loaded' = Some(from_text(cfg_text))
    /\ UNCHANGED <<cfg_text, cfg_vars, notCfg>>

FromPath ==
    /\ cfg_loaded = None
    /\ cfg_loaded' = Some(Config_from_path(cfg_text))
    /\ UNCHANGED <<cfg_text, cfg_vars, notCfg>>

CfgNext == WithVars \/ FromText \/ FromPath

SpecConfig == CfgInit /\ [][CfgNext]_vars

\* the text with every literal "==" spelled out as its key
Spelled(text) ==
    [name \in DOMAIN text |->
        [text[name] EXCEPT
            !.maps = [n \in 1..Len(@) |->
                [@[n] EXCEPT !.keys =
                    [k \in DOMAIN @ |-> IF @[k] = EqEq THEN k ELSE @[k]]]]]]

\* C7: in a loaded config every keys entry written "==" has the value of its
\* key and every other entry has the value the (rendered) text gives it, so
\* the config equals the one loaded from the text that spells X: X.
C7_EqEqSugar ==
    (cfg_loaded # None /\ cfg_loaded[1].res = "Ok") =>
        LET config == cfg_loaded[1].config[1]
        IN  /\ DOMAIN config.providers = DOMAIN cfg_text
            /\ \A name \in DOMAIN cfg_text :
                  /\ Len(config.providers[name].maps) = Len(cfg_text[name].maps)
                  /\ \A n \in 1..Len(cfg_text[name].maps) :
                        LET raw == cfg_text[name].maps[n].keys
                            got == config.providers[name].maps[n].keys
                        IN  /\ DOMAIN got = DOMAIN raw
                            /\ \A k \in DOMAIN raw :
                                  /\ raw[k] = EqEq => got[k] = k
                                  /\ raw[k] = KeyX => got[k] = KeyX
            /\ \A vs \in {<<>>, cfg_vars} :
                  with_vars(cfg_text, vs).res = "Ok"
                  => with_vars(Spelled(cfg_text), vs) = with_vars(cfg_text, vs)

\* a load that rewrote one "==" entry and kept a renaming entry
C7_Witness ==
    /\ cfg_loaded # None /\ cfg_loaded[1].res = "Ok"
    /\ DOMAIN cfg_text[KeyA].maps[1].keys = {KeyA, EqEq}
    /\ cfg_text[KeyA].maps[1].keys[KeyA] = EqEq
    /\ cfg_text[KeyA].maps[1].keys[EqEq] = KeyX
    /\ cfg_loaded[1].config[1].providers[KeyA].maps[1].keys[KeyA] = KeyA
    /\ cfg_loaded[1].config[1].providers[KeyA].maps[1].keys[EqEq] = KeyX

-----------------------------------------------------------------------------
(* teller-providers/src/registry.rs and teller-core/src/teller.rs:         *)
(* a Teller built from a config, and Teller::collect, one step per await.  *)

MaxMaps == 2        \* PathMaps declared per provider

\* Registry::new: one instance per configured name
Registry_new(providers) ==
    [name \in DOMAIN providers |-> ProviderInfo(providers[name].kind, name)]

Registry_get(registry, name) == Lookup(registry, name)

\* iteration of config.providers, in descending name order
providers_iter_rev(config) ==
    LET up == SortedKeys(DOMAIN config.providers)
    IN  [n \in 1..Len(up) |-> up[Len(up) + 1 - n]]

\* iteration of config.providers (a BTreeMap keyed by provider name)
providers_iter(config) == SortedKeys(DOMAIN config.providers)

RECURSIVE flatten(_)
flatten(res) == IF res = <<>> THEN <<>> ELSE Head(res) \o flatten(Tail(res))

Ok(v) == [res |-> "Ok", kvs |-> Some(v)]
Err(e) == [res |-> e, kvs |-> None]

\* a failed get is skipped and the loop goes on
after_get_skip(res, r) ==
    IF r.res = "Ok"
    THEN [pc |-> "loop", res |-> Append(res, r.out), ret |-> None]
    ELSE [pc |-> "loop", res |-> res, ret |-> None]

\* `let kvs = provider.get(pm).await?; res.push(kvs);`
after_get(res, r) ==
    IF r.res = "Ok"
    THEN [pc |-> "loop", res |-> Append(res, r.out), ret |-> None]
    ELSE [pc |-> "done", res |-> res, ret |-> Some(Err(r.res))]

PathMissing == <<"s", "/", "b">>

\* the PathMaps a provider may declare; every one has the id x
CollectMaps ==
    {PathMap(KeyX, path, <<>>, optional) :
        path \in {Path1, PathMissing}, optional \in BOOLEAN}
    \cup {PathMap(KeyX, Path1, [k \in {KeyA} |-> KeyX], FALSE)}

MapLists == UNION {[1..n -> CollectMaps] : n \in 0..MaxMaps}

\* provider a is a dotenv provider, provider b an inmem provider
CollectKind(name) == IF name = KeyA THEN Dotenv ELSE Inmem

CollectConfigs ==
    {[providers |-> ps] :
        ps \in UNION {[S -> MapLists] : S \in SUBSET {KeyA, KeyB}}}

CollectConfig(c) ==
    [providers |->
        [name \in DOMAIN c.providers |->
            [kind |-> CollectKind(name), options |-> None, name |-> None,
             maps |-> c.providers[name]]]]

\* what the two backends hold: the file s/a, and the inmem path s/a
CollectStore(name) ==
    IF name = KeyA
    THEN [p \in {Path1} |-> [k \in {KeyA} |-> "2"]]
    ELSE [p \in {Path1} |-> [k \in {KeyA, KeyB} |-> IF k = KeyA THEN "1" ELSE "2"]]

\* Teller::from_config
ColInit ==
    /\ \E c \in CollectConfigs : t_config = CollectConfig(c)
    /\ t_registry = Registry_new(t_config.providers)
    /\ t_stores = [name \in DOMAIN t_config.providers |-> CollectStore(name)]
    /\ t_pc = "idle" /\ t_i = 0 /\ t_j = 0
    /\ t_res = <<>> /\ t_calls = <<>> /\ t_ret = None /\ t_op = None
    /\ IdleExcept("col")

CollectStart ==
    /\ t_pc = "idle"
    /\ t_pc' = "loop" /\ t_i' = 1 /\ t_j' = 1
    /\ t_res' = <<>> /\ t_calls' = <<>> /\ t_ret' = None
    /\ UNCHANGED <<t_config, t_registry, t_stores, t_op, notCol>>

\* one provider.get(pm).await
CollectGet ==
    /\ t_pc = "loop"
    /\ t_i <= Len(providers_iter(t_config))
    /\ LET name     == providers_iter(t_config)[t_i]
           provider == Registry_get(t_registry, name)
           maps     == t_config.providers[name].maps
       IN  /\ provider # None
           /\ t_j <= Len(maps)
           /\ LET r == Provider_get(provider[1], FALSE, t_stores[name], maps[t_j])
                  n == after_get(t_res, r)
              IN  /\ t_calls' = Append(t_calls,
                        [name |-> name, index |-> t_j, pm |-> maps[t_j],
                         res |-> r.res, out |-> r.out])
                  /\ t_res' = n.res
                  /\ t_pc' = n.pc
                  /\ t_ret' = n.ret
                  /\ t_j' = t_j + 1
    /\ UNCHANGED <<t_config, t_registry, t_stores, t_i, t_op, notCol>>

\* the maps of a provider are exhausted (or the registry has no instance)
CollectNextProvider ==
    /\ t_pc = "loop"
    /\ t_i <= Len(providers_iter(t_config))
    /\ LET name == providers_iter(t_config)[t_i]
       IN  \/ Registry_get(t_registry, name) = None
           \/ t_j > Len(t_config.providers[name].maps)
    /\ t_i' = t_i + 1 /\ t_j' = 1
    /\ UNCHANGED <<t_config, t_registry, t_stores, t_pc, t_res, t_calls, t_ret,
                   t_op, notCol>>

\* Ok(res.into_iter().flatten().collect())
CollectReturn ==
    /\ t_pc = "loop"
    /\ t_i > Len(providers_iter(t_config))
    /\ t_pc' = "done"
    /\ t_ret' = Some(Ok(flatten(t_res)))
    /\ UNCHANGED <<t_config, t_registry, t_stores, t_i, t_j, t_res, t_calls,
                   t_op, notCol>>

ColNext == CollectStart \/ CollectGet \/ CollectNextProvider \/ CollectReturn

SpecCollect == ColInit /\ [][ColNext]_vars

\* every (provider name, map index) pair of the configuration
AllPairs ==
    UNION {{<<name, n>> : n \in 1..Len(t_config.providers[name].maps)} :
            name \in DOMAIN t_config.providers}

\* visiting order: ascending provider name, then declared map position
Before(c, d) ==
    \/ StrLess(c.name, d.name)
    \/ c.name = d.name /\ c.index < d.index

RECURSIVE ConcatOuts(_)
ConcatOuts(calls) ==
    IF calls = <<>> THEN <<>> ELSE Head(calls).out \o ConcatOuts(Tail(calls))

Returned == t_pc = "done" /\ t_ret # None

\* C8: collect issues its gets in ascending order of provider name and,
\* within a provider, in declared map order, never twice for the same pair;
\* every get carries the PathMap declared at that position; when collect
\* returns Ok every (provider, PathMap) pair has been asked exactly once and
\* the returned list is the concatenation of the per-call results in calling
\* order, nothing reordered and nothing dropped.
C8_CollectOrder ==
    /\ \A m, n \in 1..Len(t_calls) : m < n => Before(t_calls[m], t_calls[n])
    /\ \A n \in 1..Len(t_calls) :
          /\ <<t_calls[n].name, t_calls[n].index>> \in AllPairs
          /\ t_calls[n].pm =
                t_config.providers[t_calls[n].name].maps[t_calls[n].index]
    /\ (Returned /\ t_ret[1].res = "Ok") =>
          /\ {<<t_calls[n].name, t_calls[n].index>> : n \in 1..Len(t_calls)}
                = AllPairs
          /\ t_ret[1].kvs = Some(ConcatOuts(t_calls))

\* collect returned Ok after asking both providers, two maps on the first;
\* the key a came back from both providers and is kept each time
C8_Witness ==
    /\ Returned /\ t_ret[1].res = "Ok"
    /\ Len(t_calls) >= 3
    /\ t_calls[1].name = KeyA /\ t_calls[2].name = KeyA
    /\ t_calls[Len(t_calls)].name = KeyB
    /\ \E m, n \in 1..Len(t_ret[1].kvs[1]) :
          /\ m < n
          /\ t_ret[1].kvs[1][m].key = t_ret[1].kvs[1][n].key
          /\ t_ret[1].kvs[1][m].provider # t_ret[1].kvs[1][n].provider

C10_OptionalNotFoundSwallowed ==
    \A n \in 1..Len(t_calls) :
        (t_calls[n].res = "NotFound" /\ t_calls[n].pm.optional) =>
            ~(Returned /\ t_ret[1].res = "NotFound")

-----------------------------------------------------------------------------
(* teller-core/src/teller.rs: Teller::delete and Teller::copy, one step    *)
(* per await.  Provider a is a dotenv provider, provider b an inmem        *)
(* provider; the name c is not configured.                                  *)

\* Teller::get_pathmap_on_provider: the first map of the provider whose id
\* is map_id
get_pathmap_on_provider(config, registry, map_id, provider_name) ==
    LET none == [res |-> "Message", provider |-> None, pm |-> None]
    IN  IF provider_name \notin DOMAIN config.providers THEN none
        ELSE LET maps == config.providers[provider_name].maps
                 hits == {n \in 1..Len(maps) : maps[n].id = map_id}
             IN  IF hits = {} THEN none
                 ELSE IF Registry_get(registry, provider_name) = None THEN none
                 ELSE [res |-> "Ok",
                       provider |-> Registry_get(registry, provider_name),
                       pm |-> Some(maps[CHOOSE n \in hits :
                                           \A m \in hits : n <= m])]

\* the PathMap Teller::delete hands to del
delete_pm(pm, keys) ==
    IF keys = <<>> THEN pm
    ELSE [pm EXCEPT !.keys = [k \in {keys[n] : n \in 1..Len(keys)} |-> k]]

KeyY == <<"y">>

OpMaps ==
    {PathMap(KeyX, Path1, <<>>, FALSE),
     PathMap(KeyX, Path1, [k \in {KeyA} |-> KeyX], FALSE),
     PathMap(KeyY, Path1, [k \in {KeyB} |-> KeyB], FALSE),
     PathMap(KeyY, PathMissing, <<>>, FALSE)}

OpMapLists == {<<m>> : m \in OpMaps} \cup {<<m, n>> : m \in OpMaps, n \in OpMaps}

OpConfigs ==
    {[providers |-> ps] : ps \in [{KeyA, KeyB} -> OpMapLists]}

\* what the file s/a of provider a holds
OpFiles == {[k \in {KeyA} |-> "2"],
            [k \in {KeyA, KeyC} |-> IF k = KeyA THEN "2" ELSE "1"]}

OpStore(name, file) ==
    IF name = KeyA THEN [p \in {Path1} |-> file] ELSE CollectStore(name)

DeleteOps ==
    {[op |-> "delete", keys |-> ks, map_id |-> id, providers |-> ps] :
        ks \in {<<>>, <<KeyA>>, <<KeyA, KeyB>>},
        id \in {KeyX, KeyY},
        ps \in {<<KeyA>>, <<KeyB>>, <<KeyB, KeyA>>, <<KeyC, KeyA>>}}

CopyOps ==
    {[op |-> "copy", from_provider |-> f, from_map_id |-> fi,
      to_provider |-> t, to_map_id |-> ti, replace |-> r] :
        f \in {KeyA, KeyB, KeyC}, fi \in {KeyX, KeyY},
        t \in {KeyA, KeyB}, ti \in {KeyX, KeyY}, r \in BOOLEAN}

\* Teller::from_config, and the call about to be made
OpInit ==
    /\ \E c \in OpConfigs : t_config = CollectConfig(c)
    /\ t_registry = Registry_new(t_config.providers)
    /\ \E file \in OpFiles :
          t_stores = [name \in DOMAIN t_config.providers |-> OpStore(name, file)]
    /\ \E o \in DeleteOps \cup CopyOps : t_op = Some(o)
    /\ t_pc = t_op[1].op
    /\ t_i = 1 /\ t_j = 0
    /\ t_res = <<>> /\ t_calls = <<>> /\ t_ret = None
    /\ IdleExcept("col")

OpCall(op, name, pm, kvs, before, r) ==
    [op |-> op, name |-> name, pm |-> pm, kvs |-> kvs, before |-> before,
     res |-> r.res, out |-> r.out, after |-> r.store]

\* one round of the loop of Teller::delete
DeleteStep ==
    /\ t_pc = "delete"
    /\ t_i <= Len(t_op[1].providers)
    /\ LET name == t_op[1].providers[t_i]
           got  == get_pathmap_on_provider(t_config, t_registry,
                                           t_op[1].map_id, name)
       IN  IF got.res # "Ok"
           THEN /\ t_pc' = "done" /\ t_ret' = Some(Err(got.res))
                /\ UNCHANGED <<t_stores, t_calls, t_i>>
           ELSE LET pm == delete_pm(got.pm[1], t_op[1].keys)
                    r  == Provider_del(got.provider[1], FALSE, t_stores[name], pm)
                IN  /\ t_calls' = Append(t_calls,
                          OpCall("del", name, pm, <<>>, t_stores[name], r))
                    /\ t_stores' = [t_stores EXCEPT ![name] = r.store]
                    /\ IF r.res = "Ok"
                       THEN t_i' = t_i + 1 /\ UNCHANGED <<t_pc, t_ret>>
                       ELSE /\ t_pc' = "done" /\ t_ret' = Some(Err(r.res))
                            /\ UNCHANGED t_i
    /\ UNCHANGED <<t_config, t_registry, t_op, t_j, t_res, notCol>>

DeleteReturn ==
    /\ t_pc = "delete"
    /\ t_i > Len(t_op[1].providers)
    /\ t_pc' = "done" /\ t_ret' = Some(Ok(<<>>))
    /\ UNCHANGED <<t_config, t_registry, t_stores, t_op, t_i, t_j, t_res,
                   t_calls, notCol>>

OpFail(e) ==
    /\ t_pc' = "done" /\ t_ret' = Some(Err(e))

\* the target of Teller::copy
CopyTo ==
    get_pathmap_on_provider(t_config, t_registry, t_op[1].to_map_id,
                            t_op[1].to_provider)

\* `let data = from_provider.get(from_pm).await?`
CopyGet ==
    /\ t_pc = "copy"
    /\ LET name == t_op[1].from_provider
           got  == get_pathmap_on_provider(t_config, t_registry,
                                           t_op[1].from_map_id, name)
       IN  IF got.res # "Ok"
           THEN OpFail(got.res) /\ UNCHANGED <<t_calls, t_res>>
           ELSE LET r == Provider_get(got.provider[1], FALSE, t_stores[name],
                                      got.pm[1])
                IN  /\ t_calls' = Append(t_calls,
                          OpCall("get", name, got.pm[1], <<>>, t_stores[name], r))
                    /\ IF r.res = "Ok"
                       THEN /\ t_res' = r.out /\ t_pc' = "copy_to"
                            /\ UNCHANGED t_ret
                       ELSE OpFail(r.res) /\ UNCHANGED t_res
    /\ UNCHANGED <<t_config, t_registry, t_stores, t_op, t_i, t_j, notCol>>

\* the target provider or its map is not found
CopyNoTarget ==
    /\ t_pc = "copy_to"
    /\ CopyTo.res # "Ok"
    /\ OpFail(CopyTo.res)
    /\ UNCHANGED <<t_config, t_registry, t_stores, t_op, t_i, t_j, t_res,
                   t_calls, notCol>>

\* `if replace { to_provider.del(to_pm).await?; }`
CopyDel ==
    /\ t_pc = "copy_to"
    /\ CopyTo.res = "Ok"
    /\ t_op[1].replace
    /\ LET name == t_op[1].to_provider
           r == Provider_del(CopyTo.provider[1], FALSE, t_stores[name],
                             CopyTo.pm[1])
       IN  /\ t_calls' = Append(t_calls,
                 OpCall("del", name, CopyTo.pm[1], <<>>, t_stores[name], r))
           /\ t_stores' = [t_stores EXCEPT ![name] = r.store]
           /\ IF r.res = "Ok"
              THEN t_pc' = "copy_put" /\ UNCHANGED t_ret
              ELSE OpFail(r.res)
    /\ UNCHANGED <<t_config, t_registry, t_op, t_i, t_j, t_res, notCol>>

\* `to_provider.put(to_pm, &data).await?; Ok(())`
CopyPut ==
    /\ \/ t_pc = "copy_put"
       \/ t_pc = "copy_to" /\ CopyTo.res = "Ok" /\ ~t_op[1].replace
    /\ LET name == t_op[1].to_provider
           r == Provider_put(CopyTo.provider[1], FALSE, t_stores[name],
                             CopyTo.pm[1], t_res)
       IN  /\ t_calls' = Append(t_calls,
                 OpCall("put", name, CopyTo.pm[1], t_res, t_stores[name], r))
           /\ t_stores' = [t_stores EXCEPT ![name] = r.store]
           /\ t_pc' = "done"
           /\ t_ret' = Some(IF r.res = "Ok" THEN Ok(<<>>) ELSE Err(r.res))
    /\ UNCHANGED <<t_config, t_registry, t_op, t_i, t_j, t_res, notCol>>

\* the put of Teller::copy on a dotenv target whose file cannot be written
\* (fs::write fails in save): put returns the IO error, the file is as it was
CopyPutFail ==
    /\ \/ t_pc = "copy_put"
       \/ t_pc = "copy_to" /\ CopyTo.res = "Ok" /\ ~t_op[1].replace
    /\ CopyTo.provider[1].kind = Dotenv
    /\ LET name == t_op[1].to_provider
           r == Result("IO", t_stores[name], <<>>)
       IN  /\ t_calls' = Append(t_calls,
                 OpCall("put", name, CopyTo.pm[1], t_res, t_stores[name], r))
           /\ OpFail(r.res)
    /\ UNCHANGED <<t_config, t_registry, t_stores, t_op, t_i, t_j, t_res,
                   notCol>>

OpNext ==
    \/ DeleteStep \/ DeleteReturn
    \/ CopyGet \/ CopyNoTarget \/ CopyDel \/ CopyPut \/ CopyPutFail

SpecTellerOps == OpInit /\ [][OpNext]_vars

\* what get returns for the whole path of pm from the backend st
Remaining(provider, st, pm) ==
    Provider_get(provider, FALSE, st, PathMap_from_path(pm.path))

OpDone(op) ==
    /\ t_pc = "done" /\ t_ret # None /\ t_ret[1].res = "Ok"
    /\ t_op[1].op = op

\* C11: when Teller::delete has succeeded, then on every named provider:
\* with an empty keys list nothing remains under the path of the map
\* (whatever keys the configured map lists); with a non-empty keys list del
\* was called with the configured map whose keys are {k: k} for the listed
\* keys, all other fields as configured, and the path afterwards holds what
\* it held before without exactly the listed keys.
C11_TellerDelete ==
    OpDone("delete") =>
        \A n \in 1..Len(t_calls) :
            LET c   == t_calls[n]
                cfg == get_pathmap_on_provider(t_config, t_registry,
                                               t_op[1].map_id, c.name).pm[1]
                ks  == {t_op[1].keys[m] : m \in 1..Len(t_op[1].keys)}
                prov == t_registry[c.name]
                was == Remaining(prov, c.before, cfg)
                now == Remaining(prov, c.after, cfg)
            IN  IF ks = {}
                THEN now.res = "NotFound" \/ now.out = <<>>
                ELSE /\ c.pm = [cfg EXCEPT !.keys = [k \in ks |-> k]]
                     /\ {kv \in {now.out[m] : m \in 1..Len(now.out)} : TRUE}
                          = {kv \in {was.out[m] : m \in 1..Len(was.out)} :
                                kv.key \notin ks}

\* the dictionary a path holds, read back through get
Held(provider, st, pm) ==
    LET r == Remaining(provider, st, pm)
    IN  IF r.res = "Ok" THEN Overlay(EmptyMap, r.out) ELSE EmptyMap

\* C12: when Teller::copy has succeeded, the target path holds, with
\* replace, exactly the KVs the source get returned (value under KV.key) and
\* nothing it held before; without replace, what it held before overlaid by
\* those KVs.
C12_TellerCopy ==
    OpDone("copy") =>
        LET data == t_calls[1].out
            last == t_calls[Len(t_calls)]
            prov == t_registry[t_op[1].to_provider]
            was  == Held(prov, t_calls[2].before, last.pm)
            now  == Held(prov, last.after, last.pm)
        IN  IF t_op[1].replace
            THEN now = Overlay(EmptyMap, data)
            ELSE now = Overlay(was, data)

-----------------------------------------------------------------------------
(* teller-core/src/redact.rs.  r_reader is what reader.lines() yields: one *)
(* item per line, the line without its terminator, or a failed read.       *)
(* r_writer is the bytes written so far.                                    *)

\* str::contains
contains(s, p) ==
    \E i \in 0..(Len(s) - Len(p)) : SubSeq(s, i + 1, i + Len(p)) = p

\* str::replace for a non-empty pattern: the non-overlapping matches, found
\* from the left, are replaced
RECURSIVE replace(_, _, _)
replace(s, from, to) ==
    IF Len(s) < Len(from) THEN s
    ELSE IF starts_with(s, from)
    THEN to \o replace(SubSeq(s, Len(from) + 1, Len(s)), from, to)
    ELSE <<Head(s)>> \o replace(Tail(s), from, to)

REDACTED == <<"[", "R", "E", "D", "A", "C", "T", "E", "D", "]">>

\* kv.meta.as_ref().and_then(|m| m.redact_with.as_ref()).map_or("[REDACTED]", ..)
redact_with(kv) ==
    IF kv.meta # None /\ kv.meta[1].redact_with # None
    THEN kv.meta[1].redact_with[1] ELSE REDACTED

\* Redactor::has_match
has_match(message, kvs) ==
    \E n \in 1..Len(kvs) : contains(message, kvs[n].value)

\* the loop of Redactor::redact_string
RECURSIVE redact_each(_, _)
redact_each(redacted, kvs) ==
    IF kvs = <<>> THEN redacted
    ELSE redact_each(
            IF Len(Head(kvs).value) >= 2
            THEN replace(redacted, Head(kvs).value, redact_with(Head(kvs)))
            ELSE redacted,
            Tail(kvs))

\* Redactor::redact_string
redact_string(message, kvs) ==
    IF has_match(message, kvs) THEN redact_each(message, kvs) ELSE message

ReadOk(line) == [ok |-> TRUE, line |-> line]
ReadErr == [ok |-> FALSE, line |-> <<>>]

RedLines ==
    {<<>>, <<"b", "a">>, <<"a", "b">>, <<"a", "b", "b">>, <<"a", "a", "b", "b">>,
     <<"b", "a", "b", "a", "b">>}

RedValues == {<<"a">>, <<"a", "b">>, <<"a", "b", "b">>, <<"E", "D">>}

\* a KV whose value is a string the redactor searches for
RedKV(value, rw) ==
    [from_literal(Path1, KeyA, value, ProviderInfo(Inmem, KeyA)) EXCEPT
        !.meta = Some([sensitivity |-> "None", redact_with |-> rw,
                       source |-> None, sink |-> None])]

RedKVs ==
    {RedKV(v, rw) : v \in RedValues, rw \in {None, Some(<<>>), Some(<<"x">>)}}

RedKvLists ==
    {<<>>} \cup {<<k>> : k \in RedKVs} \cup {<<k, l>> : k \in RedKVs, l \in RedKVs}

RedItems == {ReadOk(l) : l \in RedLines} \cup {ReadErr}

RedReaders ==
    {<<>>} \cup {<<i>> : i \in RedItems} \cup {<<i, j>> : i \in RedItems, j \in RedItems}

RedInit ==
    /\ r_kvs \in RedKvLists
    /\ r_reader \in RedReaders
    /\ r_pos = 1
    /\ r_writer = <<>>
    /\ r_ret = None
    /\ IdleExcept("red")

\* one round of the loop of Redactor::redact: a line is read, redacted and
\* written with its '\n', and the writer is flushed
RedactLine ==
    /\ r_ret = None
    /\ r_pos <= Len(r_reader)
    /\ r_reader[r_pos].ok
    /\ r_writer' = r_writer \o redact_string(r_reader[r_pos].line, r_kvs)
                            \o <<"\n">>
    /\ r_pos' = r_pos + 1
    /\ UNCHANGED <<r_kvs, r_reader, r_ret, notRed>>

\* one of write_all, write_all, flush fails: the ? returns the error
RedactWriteFail ==
    /\ r_ret = None
    /\ r_pos <= Len(r_reader)
    /\ r_reader[r_pos].ok
    /\ LET redacted == redact_string(r_reader[r_pos].line, r_kvs)
       IN  r_writer' \in {r_writer, r_writer \o redacted,
                          r_writer \o redacted \o <<"\n">>}
    /\ r_ret' = Some(Err("IO"))
    /\ UNCHANGED <<r_kvs, r_reader, r_pos, notRed>>

\* a read fails: map_while(Result::ok) ends the iteration, then Ok(())
RedactReadFail ==
    /\ r_ret = None
    /\ r_pos <= Len(r_reader)
    /\ ~r_reader[r_pos].ok
    /\ r_ret' = Some(Ok(<<>>))
    /\ UNCHANGED <<r_kvs, r_reader, r_pos, r_writer, notRed>>

\* the reader is exhausted: Ok(())
RedactEnd ==
    /\ r_ret = None
    /\ r_pos > Len(r_reader)
    /\ r_ret' = Some(Ok(<<>>))
    /\ UNCHANGED <<r_kvs, r_reader, r_pos, r_writer, notRed>>

RedNext == RedactLine \/ RedactWriteFail \/ RedactReadFail \/ RedactEnd

SpecRedact == RedInit /\ [][RedNext]_vars

\* the complete lines of the bytes written, without their '\n'
RECURSIVE WrittenLines(_, _)
WrittenLines(bytes, line) ==
    IF bytes = <<>> THEN <<>>
    ELSE IF Head(bytes) = "\n" THEN <<line>> \o WrittenLines(Tail(bytes), <<>>)
    ELSE WrittenLines(Tail(bytes), Append(line, Head(bytes)))

\* the KVs whose value has at least 2 characters
Secrets == {n \in 1..Len(r_kvs) : Len(r_kvs[n].value) >= 2}

\* C13: no line written by redact contains a kv.value of length >= 2, and
\* an input line that is one such value (of the only KV with that value) is
\* written as that KV's redact_with, "[REDACTED]" by default, also when
\* another secret is a substring of it.
C13_NoSecretWritten ==
    LET out == WrittenLines(r_writer, <<>>)
    IN  \A i \in 1..Len(out) : \A n \in Secrets :
            /\ ~contains(out[i], r_kvs[n].value)
            /\ (/\ i < r_pos
                /\ r_reader[i].line = r_kvs[n].value
                /\ \A m \in Secrets : r_kvs[m].value = r_kvs[n].value => m = n)
               => out[i] = redact_with(r_kvs[n])

RECURSIVE Expected(_, _)
Expected(items, kvs) ==
    IF items = <<>> THEN <<>>
    ELSE redact_string(Head(items).line, kvs) \o <<"\n">>
            \o Expected(Tail(items), kvs)

\* C14: when redact returns Ok, every item of the input was read
\* successfully and the bytes written are, for every input line in order,
\* redact_string of the line followed by '\n'.
C14_RedactAllLines ==
    (r_ret # None /\ r_ret[1].res = "Ok") =>
        /\ \A n \in 1..Len(r_reader) : r_reader[n].ok
        /\ r_writer = Expected(r_reader, r_kvs)

-----------------------------------------------------------------------------
(* teller-providers/src/config.rs: impl Ord for KV *)

\* the variants of ProviderKind in declaration order (derive(Ord))
KindOrder ==
    <<Inmem, Dotenv, Hashicorp, HashiCorpConsul, SSM, AWSSecretsManager,
      GoogleSecretManager, Etcd>>

KindIndex(k) == CHOOSE i \in 1..Len(KindOrder) : KindOrder[i] = k

\* ProviderKind::cmp
kind_cmp(a, b) ==
    IF KindIndex(a) < KindIndex(b) THEN "Less"
    ELSE IF KindIndex(a) > KindIndex(b) THEN "Greater" ELSE "Equal"

\* String::cmp
str_cmp(s, t) ==
    IF s = t THEN "Equal" ELSE IF StrLess(s, t) THEN "Less" ELSE "Greater"

\* KV::cmp
KV_cmp(self, other) ==
    LET provider_cmp ==
            IF self.provider # None /\ other.provider # None
            THEN kind_cmp(self.provider[1].kind, other.provider[1].kind)
            ELSE "Equal"
    IN  IF provider_cmp # "Equal" THEN provider_cmp
        ELSE str_cmp(self.key, other.key)

\* KV::from_kv
from_kv(key, value) ==
    [value |-> value, key |-> key, from_key |-> key, path |-> None,
     provider |-> None, meta |-> None]

OrdKeys == {<<"a">>, <<"a", "a">>, <<"b">>}

OrdKVs ==
    {from_kv(k, "1") : k \in OrdKeys}
    \cup {from_literal(Path1, k, "1", ProviderInfo(kd, KeyA)) :
            k \in OrdKeys, kd \in {Inmem, Dotenv}}

OrdInit ==
    /\ k_kvs \in [1..3 -> OrdKVs]
    /\ k_cmp = <<>>
    /\ IdleExcept("ord")

\* every pair of the three KVs is compared
Compare ==
    /\ k_cmp = <<>>
    /\ k_cmp' = [i \in 1..3 |-> [j \in 1..3 |-> KV_cmp(k_kvs[i], k_kvs[j])]]
    /\ UNCHANGED <<k_kvs, notOrd>>

OrdNext == Compare

SpecOrd == OrdInit /\ [][OrdNext]_vars

\* the pair the order is said to be lexicographic on
OrdTag(kv) == <<IF kv.provider = None THEN None ELSE Some(kv.provider[1].kind),
                kv.key>>

\* C16: the comparison of KVs is a total order on (provider.kind, key): x < y
\* exactly when y > x, it is transitive, and two KVs compare Equal exactly
\* when they agree on (provider.kind, key); KVs without a provider included.
C16_KvTotalOrder ==
    k_cmp # <<>> =>
        \A i, j, l \in 1..3 :
            /\ (k_cmp[i][j] = "Less") = (k_cmp[j][i] = "Greater")
            /\ (k_cmp[i][j] = "Equal") = (OrdTag(k_kvs[i]) = OrdTag(k_kvs[j]))
            /\ (k_cmp[i][j] = "Less" /\ k_cmp[j][l] = "Less")
                    => k_cmp[i][l] = "Less"

-----------------------------------------------------------------------------
(* teller-core/src/scan.rs: get_visual_position.  A text is a sequence of  *)
(* bytes: "a" is a narrow ASCII letter, "\n" and "\r" are control bytes,   *)
(* and "w1" "w2" "w3" are the three bytes of one double-width glyph.       *)

MaxUnits == 3       \* characters per text

\* UnicodeWidthStr::width(String::from_utf8_lossy(bytes)): control
\* characters count 0 (tests::test_position), a double-width glyph 2, and
\* every maximal invalid piece becomes one U+FFFD of width 1
RECURSIVE width(_)
width(bytes) ==
    IF bytes = <<>> THEN 0
    ELSE IF Head(bytes) = "w1"
    THEN IF Len(bytes) >= 3 /\ bytes[2] = "w2" /\ bytes[3] = "w3"
         THEN 2 + width(SubSeq(bytes, 4, Len(bytes)))
         ELSE IF Len(bytes) >= 2 /\ bytes[2] = "w2"
         THEN 1 + width(SubSeq(bytes, 3, Len(bytes)))
         ELSE 1 + width(Tail(bytes))
    ELSE IF Head(bytes) \in {"w2", "w3"} THEN 1 + width(Tail(bytes))
    ELSE IF Head(bytes) \in {"\n", "\r"} THEN width(Tail(bytes))
    ELSE 1 + width(Tail(bytes))

\* the 0-based indices below byte_position that hold '\n'
NewlinesBefore(text, byte_position) ==
    {i \in 0..(byte_position - 1) : text[i + 1] = "\n"}

\* get_visual_position with the column counted from the start of the text
get_visual_position_from0(text, byte_position) ==
    IF byte_position >= Len(text) \/ text = <<>> THEN None
    ELSE Some(<<Cardinality(NewlinesBefore(text, byte_position)) + 1,
                width(SubSeq(text, 1, byte_position)) + 1>>)

\* get_visual_position: text[last_ln_start..byte_position] is the 1-based
\* SubSeq(text, last_ln_start + 1, byte_position)
get_visual_position(text, byte_position) ==
    IF byte_position >= Len(text) \/ text = <<>> THEN None
    ELSE LET nl    == NewlinesBefore(text, byte_position)
             lines == Cardinality(nl)
             last_ln_start ==
                 IF nl = {} THEN 0
                 ELSE CHOOSE i \in nl : \A j \in nl : j <= i
             len   == width(SubSeq(text, last_ln_start + 1, byte_position))
         IN  Some(<<lines + 1, len + 1>>)

PosUnits == {<<"a">>, <<"\n">>, <<"\r">>, <<"w1", "w2", "w3">>}

RECURSIVE PosTexts(_)
PosTexts(n) ==
    IF n = 0 THEN {<<>>}
    ELSE PosTexts(n - 1)
         \cup {t \o u : t \in PosTexts(n - 1), u \in PosUnits}

PosInit ==
    /\ v_text \in PosTexts(MaxUnits)
    /\ v_pos \in 0..(Len(v_text) + 1)
    /\ v_out = <<>>
    /\ IdleExcept("pos")

GetVisualPosition ==
    /\ v_out = <<>>
    /\ v_out' = <<get_visual_position(v_text, v_pos)>>
    /\ UNCHANGED <<v_text, v_pos, notPos>>

PosNext == GetVisualPosition

SpecPos == PosInit /\ [][PosNext]_vars

\* the display width of whole characters: 1 per letter, 2 per glyph
RECURSIVE DisplayWidth(_)
DisplayWidth(bytes) ==
    IF bytes = <<>> THEN 0
    ELSE DisplayWidth(Tail(bytes))
         + (IF Head(bytes) = "a" THEN 1 ELSE IF Head(bytes) = "w1" THEN 2 ELSE 0)

\* the 1-based index of the first byte of the line of 0-based position p
LineStart(text, p) ==
    IF \E i \in 1..p : text[i] = "\n"
    THEN 1 + (CHOOSE i \in 1..p : text[i] = "\n" /\ \A j \in (i+1)..p : text[j] # "\n")
    ELSE 1

\* C17: get_visual_position(text, p) is None when text is empty or
\* p >= len(text); otherwise it is (line, col) with line = 1 + the number
\* of '\n' before p and, for p at the start of a character, col = 1 + the
\* display width of the text from the start of p's line up to p.
C17_VisualPosition ==
    v_out # <<>> =>
        IF v_text = <<>> \/ v_pos >= Len(v_text)
        THEN v_out[1] = None
        ELSE /\ v_out[1] # None
             /\ v_out[1][1][1] =
                  1 + Cardinality({i \in 1..v_pos : v_text[i] = "\n"})
             /\ v_text[v_pos + 1] \notin {"w2", "w3"} =>
                  v_out[1][1][2] =
                    1 + DisplayWidth(SubSeq(v_text, LineStart(v_text, v_pos), v_pos))

\* a position on the second line, after a double-width glyph
C17_Witness ==
    /\ v_out # <<>> /\ v_out[1] # None
    /\ v_out[1][1][1] = 2
    /\ v_out[1][1][2] = 3
    /\ \E i \in 1..v_pos : v_text[i] = "w3"

-----------------------------------------------------------------------------
(* teller-core/src/scan.rs: scan_root.  A file under the root is a record  *)
(* with its path, whether its name starts with a dot (hidden), whether an  *)
(* ignore file excludes it (ignored), whether it can be opened (readable), *)
(* the offset of its first null byte if it has one (nul), and the text     *)
(* (content) in which secrets are looked for.                              *)

\* let mut buffer = [0; 1024]
BufLen == 1024

\* io::is_binary_file, for a file that can be opened
is_binary_file(f) == f.nul # None /\ f.nul[1] < BufLen

\* the WalkBuilder of scan_root yields the file: ignore(yes) and
\* git_ignore(yes) make the walk respect ignore files, hidden(yes) makes it
\* skip hidden files; scan_root passes !include_all, !include_all and
\* include_all
walk_yields(opts, f) ==
    LET ignore     == ~opts.include_all
        git_ignore == ~opts.include_all
        hidden     == opts.include_all
    IN  /\ ~((ignore \/ git_ignore) /\ f.ignored)
        /\ ~(hidden /\ f.hidden)

\* the patterns that end at offset e of the content and start at or after
\* offset from
EndingAt(patterns, content, from, e) ==
    {i \in 1..Len(patterns) :
        /\ Len(patterns[i]) >= 1
        /\ e - Len(patterns[i]) >= from
        /\ SubSeq(content, e - Len(patterns[i]) + 1, e) = patterns[i]}

\* AhoCorasick::find_iter with the default MatchKind::Standard: the search
\* reports the match that ends first (of those ending there the longest,
\* of equal patterns the one given first) and resumes after its end
RECURSIVE find_iter(_, _, _)
find_iter(patterns, content, from) ==
    LET ends == {e \in (from + 1)..Len(content) :
                    EndingAt(patterns, content, from, e) # {}}
    IN  IF ends = {} THEN <<>>
        ELSE LET e    == CHOOSE x \in ends : \A y \in ends : x <= y
                 c    == EndingAt(patterns, content, from, e)
                 long == {i \in c : \A j \in c :
                              Len(patterns[j]) <= Len(patterns[i])}
                 p    == CHOOSE i \in long : \A j \in long : i <= j
             IN  <<[pattern |-> p, start |-> e - Len(patterns[p])]>>
                 \o find_iter(patterns, content, e)

\* the Match values pushed for one file
matches_of(f, kvs) ==
    LET patterns == [i \in 1..Len(kvs) |-> kvs[i].value]
        found    == find_iter(patterns, f.content, 0)
    IN  [i \in 1..Len(found) |->
            [path     |-> f.path,
             query    |-> kvs[found[i].pattern],
             position |-> get_visual_position(f.content, found[i].start),
             offset   |-> found[i].start]]

\* Ord for Match: the query, then the offset; the path is not compared
Match_cmp(self, other) ==
    LET query_cmp == KV_cmp(self.query, other.query)
    IN  IF query_cmp # "Equal" THEN query_cmp
        ELSE IF self.offset < other.offset THEN "Less"
        ELSE IF self.offset > other.offset THEN "Greater" ELSE "Equal"

\* m put into a sorted list, behind the elements equal to it
RECURSIVE sort_insert(_, _)
sort_insert(sorted, m) ==
    IF sorted = <<>> THEN <<m>>
    ELSE IF Match_cmp(m, Head(sorted)) = "Less" THEN <<m>> \o sorted
    ELSE <<Head(sorted)>> \o sort_insert(Tail(sorted), m)

\* Vec::sort, a stable sort
RECURSIVE sort(_)
sort(ms) ==
    IF ms = <<>> THEN <<>>
    ELSE sort_insert(sort(SubSeq(ms, 1, Len(ms) - 1)), ms[Len(ms)])

\* the loop of scan_root over the entries in the order of the walk: the
\* matches pushed so far, or the error of the first file that cannot be
\* opened
RECURSIVE scan_loop(_, _, _, _)
scan_loop(walk, kvs, opts, matches) ==
    IF walk = <<>> THEN [res |-> "Ok", matches |-> matches]
    ELSE LET f == Head(walk) IN
         IF ~walk_yields(opts, f)
         THEN scan_loop(Tail(walk), kvs, opts, matches)
         ELSE IF ~f.readable THEN [res |-> "IO", matches |-> <<>>]
         ELSE IF is_binary_file(f) /\ ~opts.include_binary
         THEN scan_loop(Tail(walk), kvs, opts, matches)
         ELSE scan_loop(Tail(walk), kvs, opts, matches \o matches_of(f, kvs))

\* scan_root with the files in the order the walker visits them
scan_root(walk, kvs, opts) ==
    LET r == scan_loop(walk, kvs, opts, <<>>)
    IN  IF r.res # "Ok" THEN r ELSE [res |-> "Ok", matches |-> sort(r.matches)]

ScanPaths == {"f", "g"}

ScanContents == {<<"a", "b">>, <<"b", "a", "b">>}

ScanFile(path) ==
    [path : {path}, hidden : BOOLEAN, ignored : BOOLEAN, readable : BOOLEAN,
     nul : {None, Some(BufLen - 1), Some(BufLen)}, content : ScanContents]

\* one file or two files under the root
ScanFileSets ==
    {{f} : f \in ScanFile("f")}
    \cup {{f, g} : f \in ScanFile("f"), g \in ScanFile("g")}

ScanKV(key, value, kd) ==
    from_literal(Path1, key, value, ProviderInfo(kd, KeyA))

ScanKvLists ==
    {<<ScanKV(KeyA, <<"a", "b">>, Inmem)>>,
     <<ScanKV(KeyA, <<"a", "b">>, Dotenv), ScanKV(KeyB, <<"b">>, Inmem)>>,
     <<ScanKV(KeyB, <<"b">>, Inmem), ScanKV(KeyA, <<"b">>, Inmem)>>}

\* the orders in which a walk can visit the files
WalksOf(files) ==
    {w \in UNION {[1..n -> files] : n \in {Cardinality(files)}} :
        \A i, j \in DOMAIN w : i # j => w[i] # w[j]}

ScanInit ==
    /\ s_files \in ScanFileSets
    /\ s_kvs \in ScanKvLists
    /\ s_opts \in [include_binary : BOOLEAN, include_all : BOOLEAN]
    /\ s_walk \in WalksOf(s_files)
    /\ s_ret = <<>>
    /\ IdleExcept("scan")

ScanRoot ==
    /\ s_ret = <<>>
    /\ s_ret' = <<scan_root(s_walk, s_kvs, s_opts)>>
    /\ UNCHANGED <<s_files, s_kvs, s_opts, s_walk, notScan>>

ScanNext == ScanRoot

SpecScan == ScanInit /\ [][ScanNext]_vars

ScanOk == s_ret # <<>> /\ s_ret[1].res = "Ok"

\* (kind, key, offset) of a is not above that of b
MatchLeq(a, b) ==
    LET ka == KindIndex(a.query.provider[1].kind)
        kb == KindIndex(b.query.provider[1].kind)
    IN  \/ ka < kb
        \/ ka = kb /\ StrLess(a.query.key, b.query.key)
        \/ ka = kb /\ a.query.key = b.query.key /\ a.offset <= b.offset

\* C15: the list returned by scan_root is sorted ascending by
\* (query.provider.kind, query.key, offset), and it is the same list for
\* every order in which the walker can visit the same files, also when the
\* same secret occurs at the same offset in two files.
C15_ScanSortedDeterministic ==
    ScanOk =>
        LET ms == s_ret[1].matches IN
        /\ \A i, j \in 1..Len(ms) : i < j => MatchLeq(ms[i], ms[j])
        /\ \A w \in WalksOf(s_files) :
               LET r == scan_root(w, s_kvs, s_opts)
               IN  r.res = "Ok" => r.matches = ms

\* a null byte in the first 1024 bytes
HasEarlyNul(f) == f.nul # None /\ f.nul[1] < 1024

\* C18: scan_root scans a file (every file of the model holds a secret, so
\* a scanned file has a Match) if and only if (include_all, or the file is
\* neither hidden nor ignored) and (include_binary, or the file has no null
\* byte in its first 1024 bytes).
C18_ScanFileFilter ==
    ScanOk =>
        \A f \in s_files :
            (\E i \in 1..Len(s_ret[1].matches) :
                 s_ret[1].matches[i].path = f.path)
            <=> /\ s_opts.include_all \/ (~f.hidden /\ ~f.ignored)
                /\ s_opts.include_binary \/ ~HasEarlyNul(f)

-----------------------------------------------------------------------------
(* teller-core/src/exec.rs.  An environment is a function from variable    *)
(* names to values; env_kvs is a sequence of <<key, value>> pairs.         *)

MaxEnvKvs == 2      \* pairs handed to cmd

ENV_OK ==
    {"USER", "HOME", "PATH", "TMPDIR", "SHELL", "SSH_AUTH_SOCK", "LANG",
     "LC_ALL", "TEMPDIR", "TERM", "COLORTERM", "LOGNAME"}

\* shell_words::split over letters, blanks and single quotes: the words,
\* or an error when a quote is left open
RECURSIVE split_from(_, _, _, _, _)
split_from(chars, word, in_word, quoted, words) ==
    IF chars = <<>>
    THEN IF quoted THEN [res |-> "Shlex", words |-> <<>>]
         ELSE [res |-> "Ok",
               words |-> IF in_word THEN Append(words, word) ELSE words]
    ELSE LET c == Head(chars) IN
         IF c = "'"
         THEN split_from(Tail(chars), word, TRUE, ~quoted, words)
         ELSE IF c = " " /\ ~quoted
         THEN split_from(Tail(chars), <<>>, FALSE, FALSE,
                         IF in_word THEN Append(words, word) ELSE words)
         ELSE split_from(Tail(chars), Append(word, c), TRUE, quoted, words)

split(cmdstr) == split_from(cmdstr, <<>>, FALSE, FALSE, <<>>)

\* shell_command_argv (unix)
shell_command_argv(parent, command) ==
    LET shell == IF "SHELL" \in DOMAIN parent THEN parent["SHELL"]
                 ELSE "/bin/sh"
    IN  <<shell, "-c", command>>

\* HashMap::insert of every pair, in order
RECURSIVE insert_all(_, _)
insert_all(env_map, env_kvs) ==
    IF env_kvs = <<>> THEN env_map
    ELSE insert_all(
             [n \in DOMAIN env_map \cup {Head(env_kvs)[1]} |->
                 IF n = Head(env_kvs)[1] THEN Head(env_kvs)[2] ELSE env_map[n]],
             Tail(env_kvs))

\* the environment with an inherited variable kept over a pair of its name
env_map_inherited_wins(parent, env_kvs, opts) ==
    LET base == IF opts.reset_env
                THEN [n \in DOMAIN parent \cap ENV_OK |-> parent[n]]
                ELSE parent
        over == insert_all(<<>>, env_kvs)
    IN  [n \in DOMAIN base \cup DOMAIN over |->
            IF n \in DOMAIN base THEN base[n] ELSE over[n]]

\* cmd_slice, "env handling"
env_map(parent, env_kvs, opts) ==
    insert_all(IF opts.reset_env
               THEN [n \in DOMAIN parent \cap ENV_OK |-> parent[n]]
               ELSE parent,
               env_kvs)

\* cmd and cmd_slice up to expr.run(): the process to spawn, or the error
cmd(parent, cmdstr, env_kvs, opts) ==
    LET words == IF opts.sh
                 THEN [res |-> "Ok", words |-> shell_command_argv(parent, cmdstr)]
                 ELSE split(cmdstr)
    IN  IF words.res # "Ok" THEN [res |-> words.res, child |-> None]
        ELSE IF words.words = <<>> THEN [res |-> "Message", child |-> None]
        ELSE [res |-> "Ok",
              child |-> Some([program |-> Head(words.words),
                              args    |-> Tail(words.words),
                              env     |-> env_map(parent, env_kvs, opts),
                              capture |-> opts.capture])]

ExecNames == {"PATH", "SHELL", "FOO", "A"}

ExecEnvs == UNION {[ns -> {"p"}] : ns \in SUBSET ExecNames}

ExecPairs == {<<k, v>> : k \in {"A", "PATH"}, v \in {"s", "t"}}

ExecKvs == UNION {[1..n -> ExecPairs] : n \in 0..MaxEnvKvs}

ExecCmds ==
    {<<>>, <<"e">>, <<"e", " ", "e">>, <<"'", "e">>,
     <<"'", "e", " ", "e", "'">>}

ExecInit ==
    /\ e_env \in ExecEnvs
    /\ e_kvs \in ExecKvs
    /\ e_opts \in [capture : BOOLEAN, sh : BOOLEAN, reset_env : BOOLEAN]
    /\ e_words \in ExecCmds
    /\ e_child = <<>>
    /\ e_ret = <<>>
    /\ IdleExcept("exec")

\* cmd fails before anything is spawned
ExecReject ==
    /\ e_ret = <<>> /\ e_child = <<>>
    /\ cmd(e_env, e_words, e_kvs, e_opts).res # "Ok"
    /\ e_ret' = <<cmd(e_env, e_words, e_kvs, e_opts).res>>
    /\ UNCHANGED <<e_env, e_kvs, e_opts, e_words, e_child, notExec>>

\* expr.run() cannot start the program
ExecSpawnFail ==
    /\ e_ret = <<>> /\ e_child = <<>>
    /\ cmd(e_env, e_words, e_kvs, e_opts).res = "Ok"
    /\ e_ret' = <<"IO">>
    /\ UNCHANGED <<e_env, e_kvs, e_opts, e_words, e_child, notExec>>

\* expr.run() starts the child
ExecSpawn ==
    /\ e_ret = <<>> /\ e_child = <<>>
    /\ cmd(e_env, e_words, e_kvs, e_opts).res = "Ok"
    /\ e_child' = cmd(e_env, e_words, e_kvs, e_opts).child
    /\ UNCHANGED <<e_env, e_kvs, e_opts, e_words, e_ret, notExec>>

\* the child ends; run() turns a non-zero status into an error
ExecExit(status) ==
    /\ e_ret = <<>> /\ e_child # <<>>
    /\ e_ret' = <<IF status = 0 THEN "Ok" ELSE "IO">>
    /\ UNCHANGED <<e_env, e_kvs, e_opts, e_words, e_child, notExec>>

ExecNext ==
    \/ ExecReject
    \/ ExecSpawnFail
    \/ ExecSpawn
    \/ \E status \in {0, 1} : ExecExit(status)

SpecExec == ExecInit /\ [][ExecNext]_vars

\* the 12 names of the allowlist
Allowlist ==
    {"USER", "HOME", "PATH", "TMPDIR", "SHELL", "SSH_AUTH_SOCK", "LANG",
     "LC_ALL", "TEMPDIR", "TERM", "COLORTERM", "LOGNAME"}

SecretNames == {e_kvs[i][1] : i \in DOMAIN e_kvs}

\* C19: the child's environment is the parent's variables (with reset_env
\* only those named in the allowlist) overlaid with the pairs: every pair's
\* key is set to the value of a pair with that key, also over an inherited
\* variable of that name, every other inherited variable keeps its value,
\* and with reset_env no parent variable outside the allowlist is present.
C19_ChildEnv ==
    e_child # <<>> =>
        LET env  == e_child[1].env
            base == IF e_opts.reset_env THEN DOMAIN e_env \cap Allowlist
                    ELSE DOMAIN e_env
        IN  /\ DOMAIN env = base \cup SecretNames
            /\ \A n \in SecretNames :
                   \E i \in DOMAIN e_kvs :
                       e_kvs[i][1] = n /\ env[n] = e_kvs[i][2]
            /\ \A n \in base \ SecretNames : env[n] = e_env[n]
            /\ e_opts.reset_env =>
                   \A n \in DOMAIN env \ Allowlist : n \in SecretNames

\* a child started with reset_env whose parent had FOO and PATH, with a
\* secret named PATH
C19_Witness ==
    /\ e_child # <<>>
    /\ e_opts.reset_env
    /\ {"FOO", "PATH"} \subseteq DOMAIN e_env
    /\ "PATH" \in SecretNames
    /\ e_child[1].env["PATH"] \in {"s", "t"}
    /\ "FOO" \notin DOMAIN e_child[1].env

-----------------------------------------------------------------------------
(* teller-core/src/template.rs.  A template is a sequence of pieces: a     *)
(* literal text, or an expression {{ key(...) }} whose args map holds at    *)
(* most the argument "name", a string or a number.  The rendered text is   *)
(* the sequence of the rendered pieces: the one-off template of render_str *)
(* is not auto-escaped.                                                    *)

Lit(text) == [piece |-> "lit", text |-> text, args |-> <<>>]
KeyCall(args) == [piece |-> "key", text |-> "", args |-> args]
StrArg(v) == [type |-> "String", v |-> v]
NumArg(v) == [type |-> "Number", v |-> v]

\* KeyFn::call with the lookup done on from_key
KeyFn_call_from_key(kvs, args) ==
    IF "name" \notin DOMAIN args THEN Err("cannot get parameter 'name'")
    ELSE IF args["name"].type # "String"
    THEN Err("cannot get parameter 'name'")
    ELSE LET found == {i \in DOMAIN kvs : kvs[i].from_key = args["name"].v}
         IN  IF found = {} THEN Err("not found")
             ELSE Ok(kvs[CHOOSE i \in found : \A j \in found : i <= j].value)

\* KeyFn::call: the value of the first kv whose key is the name
KeyFn_call(kvs, args) ==
    IF "name" \notin DOMAIN args THEN Err("cannot get parameter 'name'")
    ELSE IF args["name"].type # "String"
    THEN Err("cannot get parameter 'name'")
    ELSE LET found == {i \in DOMAIN kvs : kvs[i].key = args["name"].v}
         IN  IF found = {} THEN Err("not found")
             ELSE Ok(kvs[CHOOSE i \in found : \A j \in found : i <= j].value)

\* Tera::render_str piece by piece: the text so far, or the first error
RECURSIVE render_from(_, _, _)
render_from(template, kvs, out) ==
    IF template = <<>> THEN Ok(out)
    ELSE LET p == Head(template) IN
         IF p.piece = "lit"
         THEN render_from(Tail(template), kvs, Append(out, p.text))
         ELSE LET r == KeyFn_call(kvs, p.args)
              IN  IF r.res # "Ok" THEN Err("Tera")
                  ELSE render_from(Tail(template), kvs, Append(out, r.kvs[1]))

\* template::render
render(template, kvs) == render_from(template, kvs, <<>>)

TplPieces ==
    {Lit("h"), KeyCall(<<>>)}
    \cup {KeyCall([n \in {"name"} |-> a]) :
            a \in {StrArg(KeyA), StrArg(KeyB), StrArg(KeyC), NumArg(<<"1">>)}}

TplTemplates ==
    {<<>>} \cup {<<p>> : p \in TplPieces}
    \cup {<<p, q>> : p, q \in TplPieces}

\* a KV read as from_key and renamed to key
TplKV(from_key, key, value) ==
    [from_literal(Path1, key, value, ProviderInfo(Inmem, KeyA))
        EXCEPT !.from_key = from_key]

TplKVs ==
    {TplKV(KeyA, KeyB, "1"), TplKV(KeyB, KeyA, "2"), TplKV(KeyA, KeyA, "3")}

TplKvLists ==
    {<<>>} \cup {<<k>> : k \in TplKVs} \cup {<<k, l>> : k, l \in TplKVs}

TplInit ==
    /\ tp_template \in TplTemplates
    /\ tp_kvs \in TplKvLists
    /\ tp_ret = <<>>
    /\ IdleExcept("tpl")

Render ==
    /\ tp_ret = <<>>
    /\ tp_ret' = <<render(tp_template, tp_kvs)>>
    /\ UNCHANGED <<tp_template, tp_kvs, notTpl>>

TplNext == Render

SpecTemplate == TplInit /\ [][TplNext]_vars

\* the name X of a key(name=X) piece, if it has one
NameOf(p) ==
    IF "name" \in DOMAIN p.args /\ p.args["name"].type = "String"
    THEN Some(p.args["name"].v) ELSE None

\* the values of the collected KVs whose key field is X
ValuesOf(kvs, X) == {kvs[i].value : i \in {j \in DOMAIN kvs : kvs[j].key = X}}

\* C20: rendering fails with an error and no output when a key(...) piece
\* has no name argument or names a key X that no collected KV has in its
\* key field; otherwise it succeeds and every key(name=X) piece is
\* replaced by the value of a collected KV whose key field is X, the
\* literal text standing as it is.
C20_TemplateKey ==
    tp_ret # <<>> =>
        LET calls == {i \in DOMAIN tp_template : tp_template[i].piece = "key"}
            bad   == {i \in calls :
                         \/ NameOf(tp_template[i]) = None
                         \/ ValuesOf(tp_kvs, NameOf(tp_template[i])[1]) = {}}
            r     == tp_ret[1]
        IN  IF bad # {}
            THEN r.res # "Ok" /\ r.kvs = None
            ELSE /\ r.res = "Ok"
                 /\ Len(r.kvs[1]) = Len(tp_template)
                 /\ \A i \in DOMAIN tp_template :
                        IF i \in calls
                        THEN r.kvs[1][i] \in
                                 ValuesOf(tp_kvs, NameOf(tp_template[i])[1])
                        ELSE r.kvs[1][i] = tp_template[i].text

\* key(name="b") rendered with a KV read as "a" and renamed to "b"
C20_Witness ==
    /\ tp_ret # <<>> /\ tp_ret[1].res = "Ok"
    /\ \E i \in DOMAIN tp_template :
           /\ NameOf(tp_template[i]) = Some(KeyB)
           /\ tp_ret[1].kvs[1][i] = "1"
    /\ \E j \in DOMAIN tp_kvs : tp_kvs[j].from_key = KeyA /\ tp_kvs[j].key = KeyB

-----------------------------------------------------------------------------
(* teller-providers/src/registry.rs and the lookups of a Teller built by   *)
(* Teller::from_config.  The options of a provider are absent, "ok", "bad" *)
(* (not of the shape the provider's options type has) or "nobin" (an       *)
(* extension whose teller-provider-<extension> is not on the PATH).        *)

\* the constructors called by Registry::new
Provider_new(name, cfg) ==
    IF cfg.kind = Inmem
    THEN IF cfg.options = Some("bad") THEN "Json" ELSE "Ok"
    ELSE IF cfg.kind = External
    THEN IF cfg.options = Some("bad") THEN "Json"
         ELSE IF cfg.options = Some("ok") THEN "Ok" ELSE "Message"
    ELSE IF cfg.options = Some("bad") THEN "Json" ELSE "Ok"

\* the loop body with a provider that cannot be constructed left out
load_provider_skip(loaded_providers, k, cfg) ==
    IF Provider_new(k, cfg) # "Ok"
    THEN [res |-> "Ok", loaded_providers |-> loaded_providers]
    ELSE [res |-> "Ok",
          loaded_providers |->
              Insert(loaded_providers, k, ProviderInfo(cfg.kind, k))]

\* the loop body of Registry::new: construct with ?, then insert
load_provider(loaded_providers, k, cfg) ==
    IF Provider_new(k, cfg) # "Ok"
    THEN [res |-> Provider_new(k, cfg), loaded_providers |-> <<>>]
    ELSE [res |-> "Ok",
          loaded_providers |->
              Insert(loaded_providers, k, ProviderInfo(cfg.kind, k))]

\* which of its three lookups fails in get_pathmap_on_provider, if any
pathmap_error(providers, registry, map_id, provider_name) ==
    IF provider_name \notin DOMAIN providers
    THEN "cannot find provider path configuration"
    ELSE IF \A n \in DOMAIN providers[provider_name].maps :
                providers[provider_name].maps[n].id # map_id
    THEN "cannot find path id"
    ELSE IF Registry_get(registry, provider_name) = None
    THEN "cannot get initialized provider"
    ELSE "Ok"

\* the configured providers whose maps the loop of collect does not read
collect_skips(providers, registry) ==
    {name \in DOMAIN providers : Registry_get(registry, name) = None}

RegCfgs ==
    [kind : {Inmem, Dotenv, External},
     options : {None, Some("ok"), Some("bad"), Some("nobin")},
     maps : {<<PathMap(KeyX, Path1, <<>>, FALSE)>>}]

RegProviders == UNION {[ns -> RegCfgs] : ns \in (SUBSET {KeyA, KeyB}) \ {{}}}

RegInit ==
    /\ g_providers \in RegProviders
    /\ g_loaded = <<>>
    /\ g_i = 1
    /\ g_ret = <<>>
    /\ g_lookup = <<>>
    /\ IdleExcept("reg")

\* one turn of the loop of Registry::new whose provider is constructed
RegistryLoad ==
    /\ g_ret = <<>>
    /\ g_i <= Len(SortedKeys(DOMAIN g_providers))
    /\ LET k == SortedKeys(DOMAIN g_providers)[g_i]
           r == load_provider(g_loaded, k, g_providers[k])
       IN  /\ r.res = "Ok"
           /\ g_loaded' = r.loaded_providers
    /\ g_i' = g_i + 1
    /\ UNCHANGED <<g_providers, g_ret, g_lookup, notReg>>

\* one turn of the loop whose provider cannot be constructed
RegistryFail ==
    /\ g_ret = <<>>
    /\ g_i <= Len(SortedKeys(DOMAIN g_providers))
    /\ LET k == SortedKeys(DOMAIN g_providers)[g_i]
           r == load_provider(g_loaded, k, g_providers[k])
       IN  /\ r.res # "Ok"
           /\ g_loaded' = r.loaded_providers
           /\ g_ret' = <<[res |-> r.res, registry |-> None]>>
    /\ UNCHANGED <<g_providers, g_i, g_lookup, notReg>>

\* Ok(Self { providers: loaded_providers })
RegistryReturn ==
    /\ g_ret = <<>>
    /\ g_i > Len(SortedKeys(DOMAIN g_providers))
    /\ g_ret' = <<[res |-> "Ok", registry |-> Some(g_loaded)]>>
    /\ UNCHANGED <<g_providers, g_loaded, g_i, g_lookup, notReg>>

\* get_pathmap_on_provider and the loop of collect on the built Teller
RegistryLookup(map_id, provider_name) ==
    /\ g_ret # <<>> /\ g_ret[1].res = "Ok"
    /\ g_lookup = <<>>
    /\ g_lookup' =
         <<[provider_name |-> provider_name,
            error |-> pathmap_error(g_providers, g_ret[1].registry[1],
                                    map_id, provider_name),
            skipped |-> collect_skips(g_providers, g_ret[1].registry[1])]>>
    /\ UNCHANGED <<g_providers, g_loaded, g_i, g_ret, notReg>>

RegNext ==
    \/ RegistryLoad
    \/ RegistryFail
    \/ RegistryReturn
    \/ \E map_id \in {KeyX, KeyY}, provider_name \in {KeyA, KeyB, KeyC} :
           RegistryLookup(map_id, provider_name)

SpecRegistry == RegInit /\ [][RegNext]_vars

\* the providers of the config that cannot be constructed
Unconstructible ==
    {k \in DOMAIN g_providers :
        \/ g_providers[k].options = Some("bad")
        \/ g_providers[k].kind = External /\ g_providers[k].options # Some("ok")}

\* C21: Registry::new returns an error and no registry when a provider of
\* the config cannot be constructed, and otherwise a registry whose names
\* are exactly the provider names of the config, each mapped to an
\* instance of the configured kind; the returned registry never changes;
\* on the built Teller collect skips no configured provider and
\* get_pathmap_on_provider never fails with 'cannot get initialized
\* provider'.
C21_RegistryComplete ==
    /\ [](g_ret # <<>> =>
            /\ IF Unconstructible # {}
               THEN g_ret[1].res # "Ok" /\ g_ret[1].registry = None
               ELSE /\ g_ret[1].res = "Ok"
                    /\ DOMAIN g_ret[1].registry[1] = DOMAIN g_providers
                    /\ \A k \in DOMAIN g_providers :
                           /\ g_ret[1].registry[1][k].kind = g_providers[k].kind
                           /\ g_ret[1].registry[1][k].name = k
            /\ g_lookup # <<>> =>
                   /\ g_lookup[1].skipped = {}
                   /\ g_lookup[1].error # "cannot get initialized provider")
    /\ [][g_ret # <<>> => g_ret' = g_ret]_vars

\* a registry of two providers of different kinds, and a lookup on it
C21_Witness ==
    /\ g_ret # <<>> /\ g_ret[1].res = "Ok"
    /\ DOMAIN g_ret[1].registry[1] = {KeyA, KeyB}
    /\ g_ret[1].registry[1][KeyA].kind # g_ret[1].registry[1][KeyB].kind
    /\ g_lookup # <<>> /\ g_lookup[1].error = "Ok"

-----------------------------------------------------------------------------
(* Writes of the blob-mapped providers on a path that has no blob          *)

\* call i is a put, or a del with keys, on a path without blob
OnMissingBlob(i) ==
    /\ kind \in {Hashicorp, AWSSecretsManager, Dotenv}
    /\ \/ hist[i].op = "put"
       \/ hist[i].op = "del" /\ DOMAIN hist[i].pm.keys # {}
    /\ hist[i].pm.path \notin DOMAIN hist[i].pre

\* the result of call i had the path held an empty blob
OnEmptyBlob(i) ==
    LET st == Insert(hist[i].pre, hist[i].pm.path, EmptyMap)
    IN  IF hist[i].op = "put"
        THEN Provider_put(self_info, opt, st, hist[i].pm, hist[i].kvs)
        ELSE Provider_del(self_info, opt, st, hist[i].pm)

\* C22: on Vault, AWS Secrets Manager and dotenv a put, or a del with keys,
\* on a path whose blob does not exist does not fail because the blob is
\* missing (it succeeds whenever it succeeds on an empty blob), and after
\* such a put the path holds exactly kvs.
C22_MissingBlobCoalesced ==
    \A i \in 1..Len(hist) :
        (OnMissingBlob(i) /\ OnEmptyBlob(i).res = "Ok") =>
            /\ hist[i].res = "Ok"
            /\ hist[i].op = "put" =>
                  /\ hist[i].pm.path \in DOMAIN PostStore(i)
                  /\ IsOverlay(PostStore(i)[hist[i].pm.path], EmptyMap,
                               hist[i].kvs)

-----------------------------------------------------------------------------
(* Handlers of google_secretmanager.rs, aws_secretsmanager.rs and          *)
(* external.rs over a backend whose calls can fail.  script gives the      *)
(* outcome of the handler's successive backend calls: "ok", "notfound"     *)
(* (the service answers that the resource does not exist), "fail" (a       *)
(* transport or permission error, or a non-zero exit status of the         *)
(* external binary) or "spawn" (the binary cannot be started).  A handler  *)
(* yields its Result and the log of the backend calls it made.             *)

Outcome(script, n) == IF n <= Len(script) THEN script[n] ELSE "ok"

Done(res, out, log) == [res |-> res, out |-> out, log |-> log]

\* GSMClient::get: `.doit().await.ok()`, then the payload of the version
\* ("nopayload": the service answers with a version that has no payload)
GSMClient_get(name, script) ==
    LET outcome      == Outcome(script, 1)
        log          == <<[call |-> "secrets_versions_access", args |-> <<name>>,
                           stdin |-> None, outcome |-> outcome]>>
        maybe_secret == IF outcome \in {"ok", "nopayload"}
                        THEN Some([payload |-> IF outcome = "ok"
                                               THEN Some("1") ELSE None])
                        ELSE None
    IN  IF maybe_secret # None
        THEN IF maybe_secret[1].payload = None THEN Done("Message", None, log)
             ELSE Done("Ok", maybe_secret[1].payload, log)
        ELSE Done("Ok", None, log)

\* aws_secretsmanager::put_data: get_secret_value(..).is_ok() chooses
\* between put_secret_value and create_secret
put_data(pm, data, script) ==
    LET probe == [call |-> "get_secret_value", args |-> <<pm.path>>,
                  stdin |-> None, outcome |-> Outcome(script, 1)]
        write == [call |-> IF probe.outcome = "ok" THEN "put_secret_value"
                           ELSE "create_secret",
                  args |-> <<pm.path, data>>, stdin |-> None,
                  outcome |-> Outcome(script, 2)]
    IN  IF write.outcome # "ok" THEN Done("PutError", None, <<probe, write>>)
        ELSE Done("Ok", None, <<probe, write>>)

\* prepare_command(action, args).output(): the argv after the program and
\* the (null) stdin of the child
Command_output(action, args, extra_arguments, outcome) ==
    [call |-> action,
     args |-> args \o (IF extra_arguments = None THEN <<>>
                       ELSE extra_arguments[1]),
     stdin |-> None, outcome |-> outcome]

\* External::get: one subprocess per key of pm.keys; the exit status is
\* not read and the stdout ("1" of a child that succeeds, nothing of one
\* that fails) is the value
RECURSIVE External_get_from(_, _, _, _, _, _)
External_get_from(pm, extra_arguments, ks, script, res, log) ==
    IF ks = <<>>
    THEN IF res = <<>> THEN Done("NotFound", None, log)
         ELSE Done("Ok", Some(res), log)
    ELSE LET output == Command_output("get", <<pm.path, Head(ks)>>,
                                      extra_arguments,
                                      Outcome(script, Len(res) + 1))
             found_val == IF output.outcome = "ok" THEN "1" ELSE ""
         IN  IF output.outcome = "spawn"
             THEN Done("IO", None, Append(log, output))
             ELSE External_get_from(pm, extra_arguments, Tail(ks), script,
                                    Append(res, <<pm.keys[Head(ks)], found_val>>),
                                    Append(log, output))

\* External::put: one subprocess per kv
RECURSIVE External_put_from(_, _, _, _, _, _)
External_put_from(pm, extra_arguments, kvs, script, n, log) ==
    IF kvs = <<>> THEN Done("Ok", None, log)
    ELSE LET output == Command_output("put", <<pm.path, Head(kvs).key>>,
                                      extra_arguments, Outcome(script, n))
         IN  IF output.outcome = "spawn"
             THEN Done("IO", None, Append(log, output))
             ELSE IF output.outcome # "ok"
             THEN Done("PutError", None, Append(log, output))
             ELSE External_put_from(pm, extra_arguments, Tail(kvs), script,
                                    n + 1, Append(log, output))

\* External::del: one subprocess
External_del_run(pm, extra_arguments, script) ==
    LET output == Command_output("del", <<pm.path>>, extra_arguments,
                                 Outcome(script, 1))
    IN  IF output.outcome = "spawn" THEN Done("IO", None, <<output>>)
        ELSE IF output.outcome # "ok" THEN Done("PutError", None, <<output>>)
        ELSE Done("Ok", None, <<output>>)

FltOutcomes == {"ok", "notfound", "nopayload", "fail", "spawn"}

FltScripts == {<<o>> : o \in FltOutcomes} \cup {<<o, p>> : o, p \in FltOutcomes}

FltKvLists ==
    {<<>>, KvsOf([k \in {KeyA} |-> "1"], ProviderInfo(External, KeyA)),
     KvsOf([k \in {KeyA, KeyB} |-> "2"], ProviderInfo(External, KeyA))}

FltCalls ==
    [handler : {"GSMClient::get", "put_data", "External::del"},
     pm : {PathMap(KeyX, Path1, <<>>, FALSE)},
     kvs : {KvsOf([k \in {KeyA} |-> "1"], ProviderInfo(External, KeyA))},
     extra_arguments : {None}]
    \cup [handler : {"External::get", "External::put"},
          pm : {PathMap(KeyX, Path1, <<>>, FALSE),
                PathMap(KeyX, Path1, [k \in {KeyA, KeyB} |-> k], FALSE)},
          kvs : FltKvLists,
          extra_arguments : {None, Some(<<"-v">>)}]

\* the outcomes a call of the handler can have
Possible(call, script) ==
    \A n \in DOMAIN script :
        /\ script[n] = "spawn" =>
               call.handler \in {"External::get", "External::put", "External::del"}
        /\ script[n] = "notfound" =>
               call.handler \in {"GSMClient::get", "put_data"} /\ n = 1
        /\ script[n] = "nopayload" => call.handler = "GSMClient::get"
        /\ n = 2 => call.handler \in {"put_data", "External::get", "External::put"}

FltInit ==
    /\ b_call \in FltCalls
    /\ b_script \in {sc \in FltScripts : Possible(b_call, sc)}
    /\ b_log = <<>>
    /\ b_ret = <<>>
    /\ IdleExcept("flt")

GsmGet ==
    /\ b_ret = <<>>
    /\ b_call.handler = "GSMClient::get"
    /\ LET r == GSMClient_get(b_call.pm.path, b_script)
       IN  /\ b_ret' = <<[res |-> r.res, out |-> r.out]>>
           /\ b_log' = r.log
    /\ UNCHANGED <<b_call, b_script, notFlt>>

AwsPutData ==
    /\ b_ret = <<>>
    /\ b_call.handler = "put_data"
    /\ LET r == put_data(b_call.pm, b_call.kvs, b_script)
       IN  /\ b_ret' = <<[res |-> r.res, out |-> r.out]>>
           /\ b_log' = r.log
    /\ UNCHANGED <<b_call, b_script, notFlt>>

ExternalGet ==
    /\ b_ret = <<>>
    /\ b_call.handler = "External::get"
    /\ LET r == External_get_from(b_call.pm, b_call.extra_arguments,
                                 SortedKeys(DOMAIN b_call.pm.keys),
                                 b_script, <<>>, <<>>)
       IN  /\ b_ret' = <<[res |-> r.res, out |-> r.out]>>
           /\ b_log' = r.log
    /\ UNCHANGED <<b_call, b_script, notFlt>>

ExternalPut ==
    /\ b_ret = <<>>
    /\ b_call.handler = "External::put"
    /\ LET r == External_put_from(b_call.pm, b_call.extra_arguments,
                                 b_call.kvs, b_script, 1, <<>>)
       IN  /\ b_ret' = <<[res |-> r.res, out |-> r.out]>>
           /\ b_log' = r.log
    /\ UNCHANGED <<b_call, b_script, notFlt>>

ExternalDel ==
    /\ b_ret = <<>>
    /\ b_call.handler = "External::del"
    /\ LET r == External_del_run(b_call.pm, b_call.extra_arguments, b_script)
       IN  /\ b_ret' = <<[res |-> r.res, out |-> r.out]>>
           /\ b_log' = r.log
    /\ UNCHANGED <<b_call, b_script, notFlt>>

FltNext == GsmGet \/ AwsPutData \/ ExternalGet \/ ExternalPut \/ ExternalDel

SpecFaults == FltInit /\ [][FltNext]_vars

\* C23: when a backend call made by a provider's handler fails (transport
\* or permission error, non-zero exit, binary not started) the handler
\* returns an error, and a pre-read that fails for another reason than
\* not-found is not followed by a write.
C23_BackendErrorsSurfaced ==
    b_ret # <<>> =>
        /\ (\E n \in DOMAIN b_log : b_log[n].outcome \in {"fail", "spawn"})
               => b_ret[1].res # "Ok"
        /\ \A n \in DOMAIN b_log :
               b_log[n].outcome \in {"fail", "spawn"} => n = Len(b_log)

\* C24: External.put runs, for each kv in turn, the binary with the
\* arguments put, pm.path, kv.key and then the extra_arguments, with
\* kv.value on its stdin or among its arguments, and returns an error at
\* the first subprocess that exits non-zero.
C24_ExternalPut ==
    (b_ret # <<>> /\ b_call.handler = "External::put") =>
        LET extra == IF b_call.extra_arguments = None THEN <<>>
                     ELSE b_call.extra_arguments[1]
        IN  /\ Len(b_log) <= Len(b_call.kvs)
            /\ \A n \in DOMAIN b_log :
                   /\ b_log[n].call = "put"
                   /\ SubSeq(b_log[n].args, 1, 2) =
                          <<b_call.pm.path, b_call.kvs[n].key>>
                   /\ SubSeq(b_log[n].args, Len(b_log[n].args) - Len(extra) + 1,
                             Len(b_log[n].args)) = extra
                   /\ \/ b_log[n].stdin = Some(b_call.kvs[n].value)
                      \/ \E a \in 3..Len(b_log[n].args) :
                             b_log[n].args[a] = b_call.kvs[n].value
                   /\ b_log[n].outcome # "ok" =>
                          n = Len(b_log) /\ b_ret[1].res # "Ok"
            /\ b_ret[1].res = "Ok" => Len(b_log) = Len(b_call.kvs)

-----------------------------------------------------------------------------
(* providers/inmem.rs under concurrent callers.  The store sits in a       *)
(* std::sync::Mutex; every handler takes the lock, works on the map        *)
(* through the guard and gives the lock back when the guard is dropped.    *)
(* One step per access to the lock or the map.                             *)

Procs == {"p", "q"}

ConcSelf == ProviderInfo(Inmem, KeyA)

\* Mutex::lock is granted as if the mutex were always free
can_lock_unguarded(lock, p) == TRUE

\* Mutex::lock is granted when no guard is alive
can_lock(lock, p) == lock = None

ConcPm(keys) == PathMap(KeyX, Path1, keys, FALSE)

ConcOps ==
    [op : {"put"}, pm : {ConcPm(<<>>)},
     kvs : {KvsOf(d, ConcSelf) :
              d \in {[k \in {KeyA} |-> "1"], [k \in {KeyB} |-> "2"],
                     [k \in {KeyA, KeyB} |-> "2"]}}]
    \cup [op : {"del"}, kvs : {<<>>},
          pm : {ConcPm(<<>>), ConcPm([k \in {KeyA} |-> k]),
                ConcPm([k \in {KeyB} |-> k])}]
    \cup [op : {"get"}, kvs : {<<>>}, pm : {ConcPm(<<>>)}]

ConcStores == {<<>>, [path \in {Path1} |-> [k \in {KeyA, KeyC} |-> "0"]]}

ConcInit ==
    /\ m_init \in ConcStores
    /\ m_store = m_init
    /\ m_lock = None
    /\ m_proc \in [Procs -> [call : ConcOps, pc : {"start"}, data : {<<>>},
                             ret : {None}]]
    /\ IdleExcept("conc")

\* self.store.lock().unwrap()
Lock(p) ==
    /\ m_proc[p].pc = "start"
    /\ can_lock(m_lock, p)
    /\ m_lock' = Some(p)
    /\ m_proc' = [m_proc EXCEPT ![p].pc = "locked"]
    /\ UNCHANGED <<m_init, m_store, notConc>>

\* store.get(&pm.path): of get, and of put and of del with keys (cloned)
Load(p) ==
    /\ m_proc[p].pc = "locked"
    /\ LET call == m_proc[p].call IN
       /\ ~(call.op = "del" /\ DOMAIN call.pm.keys = {})
       /\ m_proc' =
            IF call.op = "get"
            THEN [m_proc EXCEPT
                    ![p].pc = "written",
                    ![p].ret = Some(Inmem_get(ConcSelf, m_store, call.pm))]
            ELSE [m_proc EXCEPT
                    ![p].pc = "loaded",
                    ![p].data = IF call.pm.path \in DOMAIN m_store
                                THEN m_store[call.pm.path] ELSE EmptyMap]
    /\ UNCHANGED <<m_init, m_store, m_lock, notConc>>

\* store.insert(pm.path, data) of put and of del with keys, store.remove of
\* del without keys
Store(p) ==
    /\ LET call == m_proc[p].call IN
       \/ /\ m_proc[p].pc = "loaded" /\ call.op = "put"
          /\ m_store' = Insert(m_store, call.pm.path,
                               Overlay(m_proc[p].data, call.kvs))
       \/ /\ m_proc[p].pc = "loaded" /\ call.op = "del"
          /\ m_store' = Insert(m_store, call.pm.path,
                               Without(m_proc[p].data, DOMAIN call.pm.keys))
       \/ /\ m_proc[p].pc = "locked" /\ call.op = "del"
          /\ DOMAIN call.pm.keys = {}
          /\ m_store' = Without(m_store, {call.pm.path})
    /\ m_proc' = [m_proc EXCEPT ![p].pc = "written",
                                ![p].ret = Some(Result("Ok", <<>>, <<>>))]
    /\ UNCHANGED <<m_init, m_lock, notConc>>

\* the guard is dropped and the handler returns
Unlock(p) ==
    /\ m_proc[p].pc = "written"
    /\ m_lock' = IF m_lock = Some(p) THEN None ELSE m_lock
    /\ m_proc' = [m_proc EXCEPT ![p].pc = "done"]
    /\ UNCHANGED <<m_init, m_store, notConc>>

ConcNext == \E p \in Procs : Lock(p) \/ Load(p) \/ Store(p) \/ Unlock(p)

SpecConc == ConcInit /\ [][ConcNext]_vars

\* the call of p applied alone, at once, to the store st
Alone(p, st) ==
    LET call == m_proc[p].call
    IN  IF call.op = "put" THEN Inmem_put(ConcSelf, st, call.pm, call.kvs)
        ELSE IF call.op = "del" THEN Inmem_del(ConcSelf, st, call.pm)
        ELSE Inmem_get(ConcSelf, st, call.pm)

\* the calls took effect as if p had run to its end before q began
InOrder(p, q) ==
    LET first  == Alone(p, m_init)
        second == Alone(q, first.store)
    IN  /\ m_store = second.store
        /\ m_proc[p].call.op = "get" =>
               /\ m_proc[p].ret[1].res = first.res
               /\ m_proc[p].ret[1].out = first.out
        /\ m_proc[q].call.op = "get" =>
               /\ m_proc[q].ret[1].res = second.res
               /\ m_proc[q].ret[1].out = second.out

KeysPut(p) == {m_proc[p].call.kvs[n].key : n \in DOMAIN m_proc[p].call.kvs}

\* C25: when two callers have finished, their calls took effect one after
\* the other in some order (a get saw the store before or after the whole
\* of the other call); two puts leave every key of both in the path; of a
\* put and a del with keys, every key only the put names is held with the
\* put's value and every key only the del names is absent.
C25_InmemAtomic ==
    (\A p \in Procs : m_proc[p].pc = "done") =>
        /\ InOrder("p", "q") \/ InOrder("q", "p")
        /\ \A p, q \in Procs :
               (p # q /\ m_proc[p].call.op = "put") =>
                   /\ m_proc[q].call.op = "put" =>
                          KeysPut(p) \cup KeysPut(q) \subseteq
                              DOMAIN m_store[Path1]
                   /\ (m_proc[q].call.op = "del"
                       /\ DOMAIN m_proc[q].call.pm.keys # {}) =>
                          /\ \A n \in DOMAIN m_proc[p].call.kvs :
                                 LET kv == m_proc[p].call.kvs[n] IN
                                 kv.key \notin DOMAIN m_proc[q].call.pm.keys
                                     => /\ kv.key \in DOMAIN m_store[Path1]
                                        /\ m_store[Path1][kv.key] = kv.value
                          /\ \A k \in DOMAIN m_proc[q].call.pm.keys \ KeysPut(p) :
                                 k \notin DOMAIN m_store[Path1]

\* two puts of different keys, both finished, the second having waited for
\* the lock while the first held it
C25_Witness ==
    /\ \A p \in Procs : m_proc[p].pc = "done" /\ m_proc[p].call.op = "put"
    /\ KeysPut("p") = {KeyA} /\ KeysPut("q") = {KeyB}
    /\ m_init = <<>>
    /\ DOMAIN m_store[Path1] = {KeyA, KeyB}

-----------------------------------------------------------------------------
(* Map ids in Teller::delete and Teller::copy *)

\* the maps of the provider called in c that carry the id of c's PathMap
SameId(c) ==
    {n \in DOMAIN t_config.providers[c.name].maps :
        t_config.providers[c.name].maps[n].id = c.pm.id}

\* C26: a provider that declares two PathMaps with the same id is rejected
\* when that id is used: delete and copy never call a provider with a
\* PathMap that get_pathmap_on_provider had to choose among several maps
\* of that id.
C26_MapIdUnique ==
    \A n \in DOMAIN t_calls : Cardinality(SameId(t_calls[n])) = 1

-----------------------------------------------------------------------------
(* The matches of scan_root against the occurrences of the secrets *)

\* the byte offsets at which value occurs in content
Occurrences(content, value) ==
    {o \in 0..(Len(content) - Len(value)) :
        SubSeq(content, o + 1, o + Len(value)) = value}

\* the files whose content scan_root searches
Searched ==
    {f \in s_files :
        walk_yields(s_opts, f) /\ (s_opts.include_binary \/ ~is_binary_file(f))}

\* C27: for every file it searches, scan_root returns a Match for every
\* occurrence of the value of every KV, with the file's path, the offset
\* of the occurrence and that KV as query, also when the occurrence
\* overlaps one of another secret and when two KVs have the same value.
C27_ScanEveryOccurrence ==
    ScanOk =>
        \A f \in Searched : \A i \in DOMAIN s_kvs :
            \A o \in Occurrences(f.content, s_kvs[i].value) :
                \E n \in DOMAIN s_ret[1].matches :
                    /\ s_ret[1].matches[n].path = f.path
                    /\ s_ret[1].matches[n].offset = o
                    /\ s_ret[1].matches[n].query = s_kvs[i]

-----------------------------------------------------------------------------
(* Order of the steps of Teller::copy *)

CopyFrom ==
    get_pathmap_on_provider(t_config, t_registry, t_op[1].from_map_id,
                            t_op[1].from_provider)

CopyEnded == t_pc = "done" /\ t_ret # None /\ t_op[1].op = "copy"

\* the calls copy made on providers that write
Mutations == {n \in DOMAIN t_calls : t_calls[n].op \in {"del", "put"}}

\* C28: copy reads the source and resolves both (provider, map id) pairs
\* before it changes the target: when a provider name or map id is unknown
\* or the source get fails, no del and no put has been made.  With replace
\* the del comes before the put, and when the put then fails copy returns
\* an error and nothing of what the target path held before is left.
C28_CopyOrder ==
    CopyEnded =>
        /\ (\/ CopyFrom.res # "Ok"
            \/ CopyTo.res # "Ok"
            \/ \E n \in DOMAIN t_calls :
                   t_calls[n].op = "get" /\ t_calls[n].res # "Ok")
           => Mutations = {}
        /\ \A n \in Mutations :
               t_calls[n].op = "put" /\ t_calls[n].res # "Ok" =>
                   /\ t_ret[1].res # "Ok"
                   /\ t_op[1].replace =>
                          /\ n - 1 \in Mutations
                          /\ t_calls[n - 1].op = "del"
                          /\ Held(CopyTo.provider[1],
                                  t_stores[t_op[1].to_provider],
                                  CopyTo.pm[1]) = EmptyMap

-----------------------------------------------------------------------------
(* Entries of the Inmem store *)

\* the store agrees before and after call i on every path but the call's
OtherPathsKept(i) ==
    \A p \in (DOMAIN hist[i].pre \cup DOMAIN PostStore(i)) \ {hist[i].pm.path} :
        /\ p \in DOMAIN hist[i].pre
        /\ p \in DOMAIN PostStore(i)
        /\ PostStore(i)[p] = hist[i].pre[p]

\* C29: Inmem.get returns NotFound exactly when the store has no entry for
\* pm.path.  del with non-empty pm.keys always leaves an entry at pm.path
\* (created if none existed), so a get with empty keys right after it
\* returns Ok; del with empty pm.keys removes the entry and succeeds even
\* when the path is absent.  put and del change no other path's entry.
C29_InmemEntries ==
    kind = Inmem =>
        \A i \in DOMAIN hist :
            LET c == hist[i]
            IN  /\ c.op = "get" =>
                    /\ c.res \in {"Ok", "NotFound"}
                    /\ c.res = "NotFound" <=> c.pm.path \notin DOMAIN c.pre
                /\ c.op = "del" /\ DOMAIN c.pm.keys # {} =>
                    /\ c.res = "Ok"
                    /\ c.pm.path \in DOMAIN PostStore(i)
                    /\ \A j \in DOMAIN hist :
                           (/\ j = i + 1
                            /\ hist[j].op = "get"
                            /\ hist[j].pm.path = c.pm.path
                            /\ DOMAIN hist[j].pm.keys = {})
                           => hist[j].res = "Ok"
                /\ c.op = "del" /\ DOMAIN c.pm.keys = {} =>
                    /\ c.res = "Ok"
                    /\ c.pm.path \notin DOMAIN PostStore(i)
                /\ c.op \in {"put", "del"} => OtherPathsKept(i)

\* a del with keys on a path that had no entry, then a get of the whole
\* path that returns Ok with an empty list
C29_Witness ==
    /\ kind = Inmem
    /\ Len(hist) = 3
    /\ hist[2].op = "del"
    /\ DOMAIN hist[2].pm.keys # {}
    /\ hist[2].pm.path \notin DOMAIN hist[2].pre
    /\ hist[3].op = "get"
    /\ hist[3].pm.path = hist[2].pm.path
    /\ DOMAIN hist[3].pm.keys = {}
    /\ hist[3].res = "Ok"
    /\ hist[3].out = <<>>

-----------------------------------------------------------------------------
(* The consumers that keep one value per key of a collected list:           *)
(* Teller::run (teller.rs, exec.rs), Format::export to YAML and JSON         *)
(* (export.rs, KV::to_data) and the key() function of templates.             *)

MaxDup == 3

\* KV::to_data
RECURSIVE to_data_from(_, _)
to_data_from(data, kvs) ==
    IF kvs = <<>> THEN data
    ELSE to_data_from(Insert(data, Head(kvs).key, Head(kvs).value), Tail(kvs))

to_data(kvs) == to_data_from(EmptyMap, kvs)

\* Teller::run: the (key, value) pairs handed to exec::cmd
env_kvs_of(kvs) == [i \in DOMAIN kvs |-> <<kvs[i].key, kvs[i].value>>]

DupKV(key, value) == from_literal(Path1, key, value, ProviderInfo(Inmem, KeyA))

DupKVs == {DupKV(k, v) : k \in {KeyA, KeyB}, v \in {"1", "2", "3"}}

DupKvLists == UNION {[1..n -> DupKVs] : n \in 0..MaxDup}

DupInit ==
    /\ d_kvs \in DupKvLists
    /\ d_env = <<>>
    /\ d_data = <<>>
    /\ d_tpl = <<>>
    /\ IdleExcept("dup")

\* Teller::run up to the spawn: the environment of the subprocess
DupRun(reset_env) ==
    /\ d_env = <<>>
    /\ d_env' = <<env_map(EmptyMap, env_kvs_of(d_kvs),
                          [capture |-> FALSE, sh |-> FALSE,
                           reset_env |-> reset_env])>>
    /\ UNCHANGED <<d_kvs, d_data, d_tpl, notDup>>

\* Format::export for YAML and JSON: the map that is serialized
DupExport ==
    /\ d_data = <<>>
    /\ d_data' = <<to_data(d_kvs)>>
    /\ UNCHANGED <<d_kvs, d_env, d_tpl, notDup>>

\* one key(name=..) call of a template
DupKey(name) ==
    /\ name \notin DOMAIN d_tpl
    /\ d_tpl' = Insert(d_tpl, name,
                       KeyFn_call(d_kvs, [a \in {"name"} |-> StrArg(name)]))
    /\ UNCHANGED <<d_kvs, d_env, d_data, notDup>>

DupNext ==
    \/ \E reset_env \in BOOLEAN : DupRun(reset_env)
    \/ DupExport
    \/ \E name \in {KeyA, KeyB, KeyC} : DupKey(name)

SpecConsumers == DupInit /\ [][DupNext]_vars

\* the value of the KV with key k that was collected last
CollectedLast(k) ==
    d_kvs[CHOOSE i \in DOMAIN d_kvs :
              /\ d_kvs[i].key = k
              /\ \A j \in DOMAIN d_kvs : d_kvs[j].key = k => j <= i].value

\* C30: of several collected KVs with the same key, the environment of the
\* run subprocess, KV::to_data and the template key() lookup all pick the
\* value of the one collected last.
C30_LastWins ==
    \A i \in DOMAIN d_kvs :
        LET k == d_kvs[i].key
        IN  /\ d_env # <<>> => d_env[1][k] = CollectedLast(k)
            /\ d_data # <<>> => d_data[1][k] = CollectedLast(k)
            /\ k \in DOMAIN d_tpl => d_tpl[k] = Ok(CollectedLast(k))

====
